---- MODULE Spec2Model ----
(***************************************************************************)
(* Local-first synchronisation of the client configuration record:        *)
(* the primitiveMetadataAtom store (src/atoms/primitiveMetadataAtom.ts),  *)
(* its writers (src/atoms/index.ts, src/atoms/aggregatedViews.ts), the     *)
(* useSync hook (src/hooks/useSync.ts) and the /me/sync endpoint           *)
(* (server/api/me/sync.ts).                                                *)
(*                                                                         *)
(* Further parts, each with a specification of its own: the aggregation   *)
(* endpoint (server/api/s/aggregate.ts) as SpecAgg, the key of its         *)
(* response cache as SpecKey, and preprocessMetadata under varying         *)
(* catalogs as SpecPre.                                                    *)
(*                                                                         *)
(* Time is the client clock in milliseconds, advanced in steps of TickMs.  *)
(* JSON strings are modelled by the value they serialise; a property that  *)
(* is undefined (and therefore dropped by JSON.stringify) is the option    *)
(* value Undefined, which differs from a present empty array.              *)
(***************************************************************************)
EXTENDS Integers, Sequences, FiniteSets, TLC

\* ------------------------------------------------------------------ bounds
\* granularity of the modelled clock, in ms
TickMs == 5000
\* last clock reading of the modelled session, in ms
MaxNow == 25000

\* --------------------------------------------------------------- constants
\* useDebounce(..., 10000, ...)
DebounceMs == 10000
\* error.statusCode === 506
NotProvisioned == 506
\* the timer id of a timer that is not armed
NoTimer == -1

\* ------------------------------------------------------- optional values
Undefined == [def |-> FALSE, val |-> <<>>]
Some(x) == [def |-> TRUE, val |-> x]
\* x || []  and  x ?? []  on an optional array
OrEmpty(o) == IF o.def THEN o.val ELSE <<>>

\* ----------------------------------------------------------------- catalog
\* the catalog the build was made with: the source definitions, the redirect of
\* each (itself when it has none) and the default sources of the fixed columns
VARIABLE catalog

\* a catalog as the build script generates it: "old" redirects to "a", and the
\* defaults of a column hold no redirected id
DefaultCatalog ==
  [ sources         |-> {"a", "b", "old"},
    redirect        |-> [k \in {"a", "b", "old"} |-> IF k = "old" THEN "a" ELSE k],
    initialMetadata |-> [focus |-> <<>>, tech |-> <<"a", "b">>] ]

\* the source catalog: ids with a definition
sources == catalog.sources
redirect == catalog.redirect
\* the fixed columns and the default sources of each
initialMetadata == catalog.initialMetadata

\* sources[sourceId]?.redirect ?? sourceId
handleSourceRedirect(sourceId) ==
  IF sourceId \in sources THEN redirect[sourceId] ELSE sourceId

\* ------------------------------------------------------- sequence helpers
RECURSIVE FilterSeq(_, _)
\* s.filter(k => k \in keep)
FilterSeq(s, keep) ==
  IF s = <<>> THEN <<>>
  ELSE IF Head(s) \in keep THEN <<Head(s)>> \o FilterSeq(Tail(s), keep)
       ELSE FilterSeq(Tail(s), keep)

MapRedirect(s) == [i \in 1..Len(s) |-> handleSourceRedirect(s[i])]
Range(s) == {s[i] : i \in 1..Len(s)}

\* target.data[columnId] || []
ColumnOf(data, columnId) ==
  IF columnId \in DOMAIN data THEN data[columnId] ELSE <<>>

\* faulty variant of ProcessColumn: the defaults are appended even when present
ProcessColumnAppendAll(data, columnId) ==
  LET columnSources == ColumnOf(data, columnId)
  IN IF columnId = "focus"
       THEN MapRedirect(FilterSeq(columnSources, sources))
       ELSE MapRedirect(FilterSeq(columnSources, Range(initialMetadata[columnId])))
              \o initialMetadata[columnId]

\* one fixed column of preprocessMetadata
ProcessColumn(data, columnId) ==
  LET columnSources == ColumnOf(data, columnId)
  IN IF columnId = "focus"
       THEN MapRedirect(FilterSeq(columnSources, sources))
       ELSE LET validExistingSources ==
                  MapRedirect(FilterSeq(columnSources, Range(initialMetadata[columnId])))
                newDefaultSources ==
                  FilterSeq(initialMetadata[columnId],
                            Range(initialMetadata[columnId]) \ Range(validExistingSources))
            IN validExistingSources \o newDefaultSources

preprocessMetadata(target) ==
  [ data            |-> [c \in DOMAIN initialMetadata |-> ProcessColumn(target.data, c)],
    pinnedColumns   |-> Some(OrEmpty(target.pinnedColumns)),
    aggregatedViews |-> Some(OrEmpty(target.aggregatedViews)),
    action          |-> target.action,
    updatedTime     |-> target.updatedTime ]

\* JSON.stringify({ data, aggregatedViews, pinnedColumns })
metadataString(m) ==
  [data |-> m.data, aggregatedViews |-> m.aggregatedViews, pinnedColumns |-> m.pinnedColumns]

defaultState ==
  [ updatedTime     |-> 0,
    data            |-> initialMetadata,
    pinnedColumns   |-> Some(<<>>),
    aggregatedViews |-> Some(<<>>),
    action          |-> "init" ]


\* ------------------------------------------------------------ input values
\* one aggregated view definition
View1 == [id |-> "v1", name |-> "Tech Roundup", sources |-> <<"a", "b">>,
          createdAt |-> 1000, updatedAt |-> 1000]
\* source lists a user can give a column
SourceLists == { <<"a">>, <<"b", "a">> }
\* view collections a user can produce
ViewLists == { <<>>, <<View1>> }
\* what the "metadata" item of localStorage can hold at start-up
StoredInits ==
  { <<>>,
    << [ updatedTime |-> 4000, action |-> "manual",
         data |-> [focus |-> <<"old">>, tech |-> <<"b">>],
         pinnedColumns |-> Undefined, aggregatedViews |-> Undefined ] >> }
\* what the server can hold for the user at start-up
ServerInits ==
  { <<>>,
    << [ updatedTime |-> 2500, data |-> [focus |-> <<"b", "zz">>],
         aggregatedViews |-> <<View1>>, pinnedColumns |-> <<"tech">> ] >>,
    << [ updatedTime |-> 7500, data |-> [focus |-> <<"old">>, tech |-> <<"b", "a">>],
         aggregatedViews |-> <<>>, pinnedColumns |-> <<>> ] >> }
\* status codes of a failed request: not provisioned, unauthorised, server error
FailStatuses == {NotProvisioned, 401, 500}

\* ------------------------------------------------------------------- state
VARIABLES
  now,               \* Date.now()
  jwt,               \* whether localStorage holds a "jwt" item
  primitiveMetadata, \* baseAtom: the record the store holds
  storage,           \* the "metadata" item of localStorage: <<>> or <<record>>
  lastSyncedRef,     \* lastSyncedRef.current: <<>> for "" or <<metadataString>>
  timer,             \* due time of the useDebounce timer, or NoTimer
  mounted,           \* whether useSync has been mounted
  pull,              \* mount-time pull: "none", "skipped", "inflight" or "done"
  pushes,            \* POST /me/sync requests in flight
  server,            \* the user's row on the server: <<>> or <<record>>
  toasts,            \* number of re-authentication prompts shown
  pushSent,          \* number of push requests sent to the server
  lastWrite,         \* clock reading of the last accepted store write
  pushedSinceWrite   \* push requests sent since the last accepted store write

\* the state of the configuration sync session
syncVars == << now, jwt, primitiveMetadata, storage, lastSyncedRef, timer, mounted,
               pull, pushes, server, toasts, pushSent, lastWrite, pushedSinceWrite >>

\* state of the parts of the program the sync session does not touch
VARIABLES
  pre,               \* preprocessMetadata under test: its input and outputs
  keys,              \* getKey: the response-cache keys of the requests seen
  cacheTable,        \* the source cache: id -> <<>> or <<[items, updated]>>
  caches,            \* what cacheTable.getEntire returned to the request
  upstream,          \* what the getter of a source does: <<>> throws, <<list>> resolves
  query,             \* the aggregation request being served: <<>> or <<query>>
  results,           \* per requested position: <<>> while pending, or <<SourceResult>>
  invoked,           \* getter invocations: [index, id, forceLatest]
  cacheReads,        \* number of cacheTable.getEntire calls
  cacheSets,         \* cacheTable.set calls: [id, items]
  reply              \* <<>>, or the outcome of the aggregation handler

aggVars == << cacheTable, caches, upstream, query, results, invoked, cacheReads, cacheSets, reply >>

\* state of the user interface around the store
VARIABLES
  currentColumnID,   \* currentColumnIDAtom: the category on display
  effective,         \* <<>>, or <<the list the last read of currentSourcesAtom gave>>
  activeViewId,      \* activeAggregatedViewIdAtom: <<>> for null, or <<id>>
  lastMutation,      \* <<>>, or <<the last call of the view mutation hook>>
  restCalls,         \* the requests syncToServer has sent: [seq, method, id, updatedTime]
  restarted          \* <<>>, or <<what the page held when it was reloaded>>

uiVars == << currentColumnID, effective, activeViewId, lastMutation, restCalls, restarted >>

\* state of the server side of the user's record
VARIABLES
  userRow,           \* the user's row of the user table: <<>> or <<[data, updated]>>
  inflight,          \* aggregated-view requests between two awaits of their handler
  restReply,         \* <<>>, or <<the last response an endpoint gave>>
  served             \* number of requests the endpoints have accepted for handling

restVars == << userRow, inflight, restReply, served >>

otherVars == << catalog, pre, keys, aggVars, uiVars, restVars >>

vars == << syncVars, otherVars >>

\* nothing on display has been touched
UiIdle ==
  /\ currentColumnID = "focus"
  /\ effective = <<>>
  /\ activeViewId = <<>>
  /\ lastMutation = <<>>
  /\ restCalls = {}
  /\ restarted = <<>>

\* the endpoints have not been called
RestIdle ==
  /\ userRow = <<>>
  /\ inflight = {}
  /\ restReply = <<>>
  /\ served = 0

\* no preprocessing under test, no key computed, no aggregation request
OtherIdle ==
  /\ UiIdle
  /\ RestIdle
  /\ catalog = DefaultCatalog
  /\ pre = <<>>
  /\ keys = <<>>
  /\ cacheTable = <<>>
  /\ caches = <<>>
  /\ upstream = <<>>
  /\ query = <<>>
  /\ results = <<>>
  /\ invoked = {}
  /\ cacheReads = 0
  /\ cacheSets = {}
  /\ reply = <<>>

\* faulty variant of recoverFromStorage: the stored action tag is kept
recoverFromStorageKeepTag(item) == item

\* recoverFromStorage(): the stored record tagged "init", or <<>>
recoverFromStorage(item) ==
  IF item = <<>> THEN <<>>
  ELSE << [item[1] EXCEPT !.action = "init"] >>

\* createPrimitiveMetadataAtom: the initial state of baseAtom
initialState(item) ==
  LET recoveredState == recoverFromStorage(item)
  IN IF recoveredState # <<>> THEN preprocessMetadata(recoveredState[1]) ELSE defaultState

Init ==
  /\ OtherIdle
  /\ now = TickMs
  /\ jwt \in BOOLEAN
  /\ storage \in StoredInits
  /\ primitiveMetadata = initialState(storage)
  /\ server \in ServerInits
  /\ lastSyncedRef = <<>>
  /\ timer = NoTimer
  /\ mounted = FALSE
  /\ pull = "none"
  /\ pushes = {}
  /\ toasts = 0
  /\ pushSent = 0
  /\ lastWrite = 0
  /\ pushedSinceWrite = 0

\* ------------------------------------------------------------- store write
\* faulty variant of Accepts: every candidate is applied
AcceptsAlways(nextValue, currentValue) == TRUE

\* faulty variant of Accepts: the freshness test with >= in place of >
AcceptsNotOlder(nextValue, currentValue) == nextValue.updatedTime >= currentValue.updatedTime

\* nextValue.updatedTime > currentValue.updatedTime
Accepts(nextValue, currentValue) == nextValue.updatedTime > currentValue.updatedTime

\* localStorage.setItem(STORAGE_KEY, JSON.stringify(nextValue)) inside try/catch:
\* the item is replaced unless setItem throws
Persist(item, nextValue, storageOk) == IF storageOk THEN <<nextValue>> ELSE item

\* faulty variant of DebounceReset: a pending timeout is kept (throttle instead of debounce)
DebounceNoReset(pending, t) == IF pending # NoTimer THEN pending ELSE t + DebounceMs

\* useDebounce on a change of its deps: the pending timeout is cleared and a new one set
DebounceReset(pending, t) == t + DebounceMs

\* the record the store holds after its setter was called with nextValue
WriteResult(currentValue, nextValue) ==
  IF Accepts(nextValue, currentValue) THEN nextValue ELSE currentValue

\* the setter of primitiveMetadataAtom, and the re-render of useSync it causes:
\* an accepted value changes the deps of useDebounce, which re-arms the timer
SetPrimitiveMetadata(nextValue, storageOk) ==
  IF Accepts(nextValue, primitiveMetadata)
    THEN /\ primitiveMetadata' = nextValue
         /\ storage' = Persist(storage, nextValue, storageOk)
         /\ timer' = DebounceReset(timer, now)
         /\ lastWrite' = now
         /\ pushedSinceWrite' = 0
    ELSE UNCHANGED << primitiveMetadata, storage, timer, lastWrite, pushedSinceWrite >>


\* ----------------------------------------------------------- local writers
\* the candidate of the setters of focusSourcesAtom and currentSourcesAtom
SourcesUpdate(cur, columnId, list) ==
  [ updatedTime     |-> now,
    action          |-> "manual",
    data            |-> [c \in DOMAIN cur.data \cup {columnId} |->
                           IF c = columnId THEN list ELSE cur.data[c]],
    pinnedColumns   |-> Undefined,
    aggregatedViews |-> Undefined ]

\* the candidate of the setter of aggregatedViewsAtom
ViewsUpdate(cur, newViews) ==
  [cur EXCEPT !.aggregatedViews = Some(newViews), !.updatedTime = now, !.action = "manual"]

\* the session has a full debounce window left
CanEdit == mounted /\ now + DebounceMs <= MaxNow

\* a user changes the source list of a column (or of the favorites)
EditSources(columnId, list, storageOk) ==
  /\ UNCHANGED otherVars
  /\ CanEdit
  /\ SetPrimitiveMetadata(SourcesUpdate(primitiveMetadata, columnId, list), storageOk)
  /\ UNCHANGED << now, jwt, lastSyncedRef, mounted, pull, pushes, server, toasts, pushSent >>

\* a user creates, changes or deletes an aggregated view
EditViews(newViews, storageOk) ==
  /\ UNCHANGED otherVars
  /\ CanEdit
  /\ SetPrimitiveMetadata(ViewsUpdate(primitiveMetadata, newViews), storageOk)
  /\ UNCHANGED << now, jwt, lastSyncedRef, mounted, pull, pushes, server, toasts, pushSent >>

\* ------------------------------------------------------------------- clock
Tick ==
  /\ UNCHANGED otherVars
  /\ now + TickMs <= MaxNow
  /\ now' = now + TickMs
  /\ UNCHANGED << jwt, primitiveMetadata, storage, lastSyncedRef, timer, mounted,
                  pull, pushes, server, toasts, pushSent, lastWrite, pushedSinceWrite >>

\* -------------------------------------------------------------- sync errors
\* faulty variant of handleSyncError: the not-provisioned status is handled like any other
handleSyncErrorAlways(statusCode) == TRUE

\* faulty variant of handleSyncError: only an unauthorised response is handled
handleSyncErrorOnly401(statusCode) == statusCode = 401

\* handleSyncError: TRUE when the error was handled by prompt and logout
handleSyncError(statusCode) == statusCode # NotProvisioned

\* logout(): the credential is cleared
logout(credential) == FALSE

\* the effect of handleSyncError on credential and prompts
SyncError(statusCode) ==
  IF handleSyncError(statusCode)
    THEN toasts' = toasts + 1 /\ jwt' = logout(jwt)
    ELSE UNCHANGED << toasts, jwt >>

\* faulty variant of getJWT: a credential is always found
getJWTAlways == TRUE

\* getJWT(): whether a credential is read from localStorage
getJWT == jwt

\* ------------------------------------------------------------------- mount
\* useSync is mounted: useDebounce arms its timer, useMount starts the pull,
\* which downloadMetadata skips without a credential
Mount ==
  /\ UNCHANGED otherVars
  /\ ~mounted
  /\ mounted' = TRUE
  /\ timer' = now + DebounceMs
  /\ pull' = IF getJWT THEN "inflight" ELSE "skipped"
  /\ UNCHANGED << now, jwt, primitiveMetadata, storage, lastSyncedRef, pushes, server,
                  toasts, pushSent, lastWrite, pushedSinceWrite >>

\* -------------------------------------------------------------------- push
\* the body uploadMetadata posts
UploadBody(metadata) ==
  [ data            |-> metadata.data,
    updatedTime     |-> metadata.updatedTime,
    aggregatedViews |-> OrEmpty(metadata.aggregatedViews),
    pinnedColumns   |-> OrEmpty(metadata.pinnedColumns) ]

\* faulty variant of ShouldUpload: the action tag is not tested
ShouldUploadAnyAction(metadata, lastSynced) == <<metadataString(metadata)>> # lastSynced

\* the condition of the debounced callback
ShouldUpload(metadata, lastSynced) ==
  metadata.action = "manual" /\ <<metadataString(metadata)>> # lastSynced

\* the useDebounce timer fires and its callback runs up to the await of the request
DebounceFire ==
  /\ UNCHANGED otherVars
  /\ mounted
  /\ timer # NoTimer
  /\ now >= timer
  /\ timer' = NoTimer
  /\ IF ShouldUpload(primitiveMetadata, lastSyncedRef)
       THEN IF getJWT
              THEN /\ pushes' = pushes \cup
                        { [ body |-> UploadBody(primitiveMetadata),
                            snapshot |-> metadataString(primitiveMetadata) ] }
                   /\ pushSent' = pushSent + 1
                   /\ pushedSinceWrite' = pushedSinceWrite + 1
                   /\ UNCHANGED lastSyncedRef
              ELSE /\ lastSyncedRef' = <<metadataString(primitiveMetadata)>>
                   /\ UNCHANGED << pushes, pushSent, pushedSinceWrite >>
       ELSE UNCHANGED << pushes, pushSent, pushedSinceWrite, lastSyncedRef >>
  /\ UNCHANGED << now, jwt, primitiveMetadata, storage, mounted, pull, server, toasts,
                  lastWrite >>

\* POST /me/sync: the row is overwritten with the body as sent
PostSync(body) ==
  << [ data            |-> body.data,
       updatedTime     |-> body.updatedTime,
       aggregatedViews |-> body.aggregatedViews,
       pinnedColumns   |-> body.pinnedColumns ] >>

\* the value lastSyncedRef gets once uploadMetadata has returned
AfterUpload(p, succeeded) == <<p.snapshot>>

\* a push request succeeds and the callback resumes after the await
PushOk(p) ==
  /\ UNCHANGED otherVars
  /\ p \in pushes
  /\ pushes' = pushes \ {p}
  /\ server' = PostSync(p.body)
  /\ lastSyncedRef' = AfterUpload(p, TRUE)
  /\ UNCHANGED << now, jwt, primitiveMetadata, storage, timer, mounted, pull, toasts,
                  pushSent, lastWrite, pushedSinceWrite >>

\* a push request fails; uploadMetadata catches the error and the callback resumes
PushFail(p, statusCode) ==
  /\ UNCHANGED otherVars
  /\ p \in pushes
  /\ pushes' = pushes \ {p}
  /\ SyncError(statusCode)
  /\ lastSyncedRef' = AfterUpload(p, FALSE)
  /\ UNCHANGED << now, primitiveMetadata, storage, timer, mounted, pull, server,
                  pushSent, lastWrite, pushedSinceWrite >>

\* -------------------------------------------------------------------- pull
\* GET /me/sync: <<>> when the row holds no data
GetSync(row) == row

\* what downloadMetadata returns for a response with data
Downloaded(response) ==
  [ action          |-> "sync",
    data            |-> response.data,
    updatedTime     |-> response.updatedTime,
    aggregatedViews |-> Some(response.aggregatedViews),
    pinnedColumns   |-> Some(response.pinnedColumns) ]

\* the pull request succeeds and loadInitialData resumes
PullOk(storageOk) ==
  /\ UNCHANGED otherVars
  /\ pull = "inflight"
  /\ pull' = "done"
  /\ LET response == GetSync(server)
     IN IF response # <<>>
          THEN /\ SetPrimitiveMetadata(preprocessMetadata(Downloaded(response[1])), storageOk)
               /\ lastSyncedRef' = <<metadataString(Downloaded(response[1]))>>
          ELSE UNCHANGED << primitiveMetadata, storage, timer, lastWrite, pushedSinceWrite,
                            lastSyncedRef >>
  /\ UNCHANGED << now, jwt, mounted, pushes, server, toasts, pushSent >>

\* the pull request fails; downloadMetadata catches the error and returns undefined
PullFail(statusCode) ==
  /\ UNCHANGED otherVars
  /\ pull = "inflight"
  /\ pull' = "done"
  /\ SyncError(statusCode)
  /\ UNCHANGED << now, primitiveMetadata, storage, lastSyncedRef, timer, mounted, pushes,
                  server, pushSent, lastWrite, pushedSinceWrite >>

\* ------------------------------------------------------------ specification
Next ==
  \/ Mount
  \/ Tick
  \/ \E c \in DOMAIN initialMetadata, l \in SourceLists, ok \in BOOLEAN : EditSources(c, l, ok)
  \/ \E v \in ViewLists, ok \in BOOLEAN : EditViews(v, ok)
  \/ DebounceFire
  \/ \E p \in pushes : PushOk(p)
  \/ \E p \in pushes, st \in FailStatuses : PushFail(p, st)
  \/ \E ok \in BOOLEAN : PullOk(ok)
  \/ \E st \in FailStatuses : PullFail(st)

Spec == Init /\ [][Next]_vars

\* a response to a push request arrives
PushResponse == \E p \in pushes : PushOk(p) \/ \E st \in FailStatuses : PushFail(p, st)

\* a response to the pull request arrives
PullResponse == (\E ok \in BOOLEAN : PullOk(ok)) \/ (\E st \in FailStatuses : PullFail(st))

\* the session is mounted, time passes, a due timer fires and every request is answered
SpecFair ==
  /\ Spec
  /\ WF_vars(Mount)
  /\ WF_vars(Tick)
  /\ WF_vars(DebounceFire)
  /\ WF_vars(PushResponse)
  /\ WF_vars(PullResponse)


\* ================================================================== claims
\* Post holds of the candidate of every step that calls the setter of the store:
\* the two source setters, the views setter and the completion of the pull
EverySetterStep(Post(_)) ==
  /\ \A c \in DOMAIN initialMetadata, l \in SourceLists, ok \in BOOLEAN :
       EditSources(c, l, ok) => Post(SourcesUpdate(primitiveMetadata, c, l))
  /\ \A v \in ViewLists, ok \in BOOLEAN :
       EditViews(v, ok) => Post(ViewsUpdate(primitiveMetadata, v))
  /\ \A ok \in BOOLEAN :
       (server # <<>> /\ PullOk(ok)) => Post(preprocessMetadata(Downloaded(server[1])))

\* the candidate is applied and persisted iff it is newer
AppliedAndPersisted(cand) ==
  IF cand.updatedTime > primitiveMetadata.updatedTime
    THEN primitiveMetadata' = cand /\ storage' = <<cand>>
    ELSE UNCHANGED << primitiveMetadata, storage >>

\* the candidate is applied iff it is newer, and persisted unless the storage write failed
AppliedAndPersistAttempted(cand) ==
  IF cand.updatedTime > primitiveMetadata.updatedTime
    THEN primitiveMetadata' = cand /\ storage' \in {<<cand>>, storage}
    ELSE UNCHANGED << primitiveMetadata, storage >>

\* C1 as stated: a write replaces the held record by the candidate and persists the
\* candidate if and only if candidate.updatedTime > T; otherwise neither the held
\* record nor the durable copy changes.
C1_WriteAlwaysPersists == [][EverySetterStep(AppliedAndPersisted)]_vars

\* C1 amended: the held record is replaced by the candidate if and only if
\* candidate.updatedTime > T; only then is the durable copy written, and it becomes
\* the candidate unless the storage write fails, in which case it keeps its value;
\* with candidate.updatedTime <= T neither the held record nor the durable copy changes.
C1_StoreWrite ==
  [][ /\ EverySetterStep(AppliedAndPersistAttempted)
      /\ primitiveMetadata' # primitiveMetadata =>
           primitiveMetadata'.updatedTime > primitiveMetadata.updatedTime
      /\ storage' # storage =>
           primitiveMetadata' # primitiveMetadata /\ storage' = <<primitiveMetadata'>> ]_vars

\* an accepted manual write whose storage write failed: memory and durable copy differ
C1_Witness ==
  /\ primitiveMetadata.action = "manual"
  /\ lastWrite > 0
  /\ storage # <<primitiveMetadata>>


\* a step sends a push request
PushRequestSent == pushSent' = pushSent + 1

\* the debounced callback runs with a credential, a manual record and a changed content
DueEvaluation ==
  /\ DebounceFire
  /\ jwt
  /\ primitiveMetadata.action = "manual"
  /\ <<metadataString(primitiveMetadata)>> # lastSyncedRef

\* C2: a burst of local edits, each less than the debounce window after the previous
\* one, gives exactly one push request: none is sent before a full quiet window has
\* passed since the last accepted edit, the evaluation that then runs with a
\* credential, a manual record and a content other than the baseline sends one
\* request carrying the record of the last edit, and no second one follows until
\* the next accepted edit.
C2_DebounceCoalescing ==
  [][ /\ pushedSinceWrite' <= 1
      /\ PushRequestSent =>
           /\ now >= lastWrite + DebounceMs
           /\ primitiveMetadata.updatedTime = lastWrite
           /\ pushes' = pushes \cup { [ body |-> UploadBody(primitiveMetadata),
                                        snapshot |-> metadataString(primitiveMetadata) ] }
           /\ Cardinality(pushes') = Cardinality(pushes) + 1
      /\ DueEvaluation => PushRequestSent ]_vars

\* two accepted edits less than a window apart (the earlier one is the durable copy,
\* the storage write of the later one failed) and one push request since
C2_Witness ==
  /\ pushedSinceWrite = 1
  /\ pushSent = 1
  /\ storage # <<>>
  /\ storage[1].action = "manual"
  /\ storage[1].updatedTime < lastWrite
  /\ lastWrite - storage[1].updatedTime < DebounceMs
  /\ primitiveMetadata.updatedTime = lastWrite

\* C3: at most one push request is in flight in every reachable state.
C3_AtMostOnePushInFlight == Cardinality(pushes) <= 1

\* C4: the last-synced baseline becomes the pushed snapshot when a push request
\* succeeds, and a failed push or a push skipped for want of a credential leaves it
\* unchanged.
C4_BaselineOnlyOnSuccess ==
  [][ /\ \A p \in pushes : PushOk(p) => lastSyncedRef' = <<p.snapshot>>
      /\ \A p \in pushes, st \in FailStatuses :
           PushFail(p, st) => lastSyncedRef' = lastSyncedRef
      /\ (DebounceFire /\ ~jwt) => lastSyncedRef' = lastSyncedRef ]_vars

\* C5: a push request is sent only in a state with a credential, a record tagged
\* "manual" and a serialized content that differs from the last-synced baseline,
\* and it carries that record.
C5_PushOnlyWhenDue ==
  [][ PushRequestSent =>
        /\ jwt
        /\ primitiveMetadata.action = "manual"
        /\ <<metadataString(primitiveMetadata)>> # lastSyncedRef
        /\ \E p \in pushes' : p \notin pushes /\ p.body = UploadBody(primitiveMetadata) ]_vars

\* a push request of a manual record is in flight
C5_Witness ==
  /\ pushes # {}
  /\ pushSent >= 1
  /\ jwt


\* the local record, in memory and in durable storage
LocalRecord == << primitiveMetadata, storage >>

\* C7: a pull or push that fails with status 506 clears no credential, shows no
\* re-authentication prompt and leaves the local record unchanged.
C7_NotProvisionedIsNoOp ==
  [][ /\ \A p \in pushes :
           PushFail(p, NotProvisioned) => UNCHANGED << jwt, toasts, LocalRecord >>
      /\ PullFail(NotProvisioned) => UNCHANGED << jwt, toasts, LocalRecord >> ]_vars

\* the pull has completed against a server that holds a record, yet no baseline was
\* recorded, no prompt shown and the credential kept: it failed with 506
C7_Witness ==
  /\ pull = "done"
  /\ server # <<>>
  /\ pushSent = 0
  /\ lastSyncedRef = <<>>
  /\ toasts = 0
  /\ jwt

\* C8: a pull or push failure with any other status clears the credential and shows
\* the re-authentication prompt, and leaves the local record, in memory and in
\* durable storage, as it was.
C8_OtherFailureLogsOut ==
  [][ /\ \A p \in pushes, st \in FailStatuses \ {NotProvisioned} :
           PushFail(p, st) =>
             jwt' = FALSE /\ toasts' = toasts + 1 /\ UNCHANGED LocalRecord
      /\ \A st \in FailStatuses \ {NotProvisioned} :
           PullFail(st) =>
             jwt' = FALSE /\ toasts' = toasts + 1 /\ UNCHANGED LocalRecord ]_vars

\* a request has failed and logged the user out; the manual record is still held and
\* still persisted
C8_Witness ==
  /\ toasts > 0
  /\ ~jwt
  /\ primitiveMetadata.action = "manual"
  /\ storage = <<primitiveMetadata>>

\* C9: without a credential no step sends a request, neither the mount-time pull
\* nor the debounced push logs out or prompts, and every write of the store is
\* still applied under the freshness rule.
C9_NoCredentialNoSync ==
  [][ ~jwt =>
        /\ pushSent' = pushSent
        /\ pushes' \subseteq pushes
        /\ pull' = "inflight" => pull = "inflight"
        /\ (Mount \/ DebounceFire) => UNCHANGED << jwt, toasts, LocalRecord >>
        /\ EverySetterStep(AppliedAndPersistAttempted) ]_vars

\* without a credential the pull was skipped, a manual edit was accepted and the
\* debounced evaluation has run, and nothing was sent or prompted
C9_Witness ==
  /\ ~jwt
  /\ pull = "skipped"
  /\ primitiveMetadata.action = "manual"
  /\ timer = NoTimer
  /\ lastSyncedRef = <<metadataString(primitiveMetadata)>>
  /\ pushSent = 0
  /\ toasts = 0

\* the store holds either what it held or the whole candidate
WhollyReplacedOrKept(cand) == primitiveMetadata' \in {primitiveMetadata, cand}

\* the larger of two clock readings
Later(a, b) == IF a >= b THEN a ELSE b

\* a pull completion and a manual edit applied to the held record in both orders:
\* each result is one whole record and carries the largest updatedTime
BothOrders(pulled, Edit(_)) ==
  LET held == primitiveMetadata
      editFirst == Edit(held)
      r1 == WriteResult(WriteResult(held, editFirst), pulled)
      afterPull == WriteResult(held, pulled)
      editSecond == Edit(afterPull)
      r2 == WriteResult(afterPull, editSecond)
      newest == Later(held.updatedTime, Later(pulled.updatedTime, now))
  IN /\ r1 \in {held, editFirst, pulled}
     /\ r2 \in {held, pulled, editSecond}
     /\ r1.updatedTime = newest
     /\ r2.updatedTime = newest
     /\ pulled.updatedTime > now /\ pulled.updatedTime > held.updatedTime =>
          r1 = pulled /\ r2 = pulled
     /\ now > pulled.updatedTime /\ now > held.updatedTime =>
          r1 = editFirst /\ r2 = editSecond

\* C10: a pulled record that is not newer than the held one leaves the held record
\* unchanged, a strictly newer one replaces it as a whole by the preprocessed server
\* record tagged "sync"; whichever of a pull completion and a manual edit is applied
\* first, the store ends with one whole record, the one with the larger updatedTime.
C10_PullMerge ==
  /\ [][ /\ \A ok \in BOOLEAN :
              (server # <<>> /\ PullOk(ok)) =>
                LET pulled == preprocessMetadata(Downloaded(server[1]))
                IN /\ pulled.action = "sync"
                   /\ primitiveMetadata' =
                        IF pulled.updatedTime > primitiveMetadata.updatedTime
                          THEN pulled ELSE primitiveMetadata
         /\ EverySetterStep(WhollyReplacedOrKept) ]_vars
  /\ [] ( (pull = "inflight" /\ server # <<>> /\ CanEdit) =>
            LET pulled == preprocessMetadata(Downloaded(server[1]))
            IN /\ \A c \in DOMAIN initialMetadata, l \in SourceLists :
                    BothOrders(pulled, LAMBDA cur : SourcesUpdate(cur, c, l))
               /\ \A v \in ViewLists :
                    BothOrders(pulled, LAMBDA cur : ViewsUpdate(cur, v)) )

\* the pull has completed with a record older than a manual edit: the edit is held
C10_Witness ==
  /\ pull = "done"
  /\ server # <<>>
  /\ lastSyncedRef = <<metadataString(Downloaded(server[1]))>>
  /\ primitiveMetadata.action = "manual"
  /\ primitiveMetadata.updatedTime > server[1].updatedTime


\* the server row holds the content of the record
ServerHolds(m) ==
  /\ server # <<>>
  /\ server[1].data = m.data
  /\ server[1].aggregatedViews = OrEmpty(m.aggregatedViews)
  /\ server[1].pinnedColumns = OrEmpty(m.pinnedColumns)

\* the store holds a manual change that the server does not hold, and a credential
\* is present
Unpushed ==
  /\ mounted
  /\ jwt
  /\ primitiveMetadata.action = "manual"
  /\ ~ServerHolds(primitiveMetadata)

\* C6: a manual change accepted while a credential is present is eventually sent:
\* as long as the credential stays and the record stays the manual one, pushes are
\* issued (again after a failure) until the server holds the content.
C6_EventuallyPushed == [](Unpushed => <>(~Unpushed))


\* ============================================================================
\* The aggregation endpoint (server/api/s/aggregate.ts): one request, split at
\* its awaits into the request step, the completion of each getter call and
\* the response.
\* ============================================================================

\* ------------------------------------------------------------------ bounds
\* length of the longest list a getter returns
MaxFetched == 12

\* --------------------------------------------------------------- constants
TTL == 30 * 60 * 1000
MAX_ITEMS_PER_SOURCE == 10
MAX_AGGREGATED_ITEMS == 50

\* ids with a registered getter
getters == {"a", "b"}
\* sources[id].interval, in ms
interval == [k \in {"a", "b", "old"} |-> IF k = "b" THEN 120000 ELSE 600000]
\* sources[id].name
sourceName == [k \in {"a", "b", "old"} |-> IF k = "a" THEN "Alpha" ELSE "Beta"]

\* ------------------------------------------------------------- news items
\* a pubDate or extra.date: absent, a numeric epoch or a date string
NoDate == [kind |-> "undefined", n |-> 0, s |-> ""]
NumDate(n) == [kind |-> "number", n |-> n, s |-> ""]
StrDate(s) == [kind |-> "string", n |-> 0, s |-> s]

\* new Date(s).getTime() of the date strings the items carry
DateParse(s) ==
  CASE s = "1970-01-01T01:20:00.000Z" -> 4800000
    [] s = "1970-01-01T01:21:40.000Z" -> 4900000
    [] s = "Thu, 01 Jan 1970 01:15:00 GMT" -> 4500000

\* if (d): undefined, 0 and "" are falsy
Truthy(d) == (d.kind = "number" /\ d.n # 0) \/ (d.kind = "string" /\ d.s # "")

\* typeof d === "number" ? d : new Date(d).getTime()
DateValue(d) == IF d.kind = "number" THEN d.n ELSE DateParse(d.s)

\* getItemTimestamp(item), with Date.now() reading clock
getItemTimestamp(item, clock) ==
  IF Truthy(item.pubDate) THEN DateValue(item.pubDate)
  ELSE IF Truthy(item.extraDate) THEN DateValue(item.extraDate)
  ELSE clock

\* the k-th item a source publishes: the date fields take every shape
NewsItem(k) ==
  [ id        |-> k,
    pubDate   |-> CASE k % 5 = 0 -> NumDate(4000000 + ((k * 7) % 4) * 100000)
                    [] k % 5 = 1 -> StrDate("1970-01-01T01:20:00.000Z")
                    [] k % 5 = 2 -> NoDate
                    [] k % 5 = 3 -> NumDate(0)
                    [] OTHER     -> NoDate,
    extraDate |-> CASE k % 5 = 2 -> NumDate(4700000 + k)
                    [] k % 5 = 3 -> StrDate("Thu, 01 Jan 1970 01:15:00 GMT")
                    [] k % 5 = 0 -> StrDate("1970-01-01T01:21:40.000Z")
                    [] OTHER     -> NoDate ]

\* the items first .. first + n - 1 of a source
NewsItems(first, n) == [i \in 1..n |-> NewsItem(first + i - 1)]

\* array.slice(0, n)
Slice(s, n) == IF Len(s) <= n THEN s ELSE SubSeq(s, 1, n)

\* ------------------------------------------------------------ input values
\* Date.now() when the handler reads the clock
RequestTime == 5000000
\* how much later the clock can read when the items are merged
MergeDelay == 250
\* an age between every refresh interval and TTL
StaleAge == 900000
\* what the cache can hold for a source: nothing, or an entry that is inside the
\* refresh interval, exactly as old as the interval, older than the interval
\* and younger than TTL, or exactly as old as TTL
CacheEntries(x) ==
  IF x \notin getters THEN { <<>> }
  ELSE { <<>> } \cup
       { << [ id |-> x, items |-> NewsItems(20, 2), updated |-> RequestTime - age ] >> :
           age \in {60000, interval[x], StaleAge, TTL} }
\* query.sourceIds after split(","): an absent or empty parameter gives <<"">>
RawIdLists ==
  { << "" >>, << "zz" >>, << "old", "zz" >>, << "a" >>, << "b", "", "a" >>,
    << "zz", "b" >>, << "a", "b", "a", "b", "a", "b" >> }
\* the queries of a request: sourceIds and whether latest is "true"
Queries == [sourceIds : RawIdLists, latest : BOOLEAN]
\* what a getter resolves with; the upstream of a source answers every call of
\* one request alike
GetterResults == { <<>>, NewsItems(1, 3), NewsItems(1, MaxFetched) }

\* ------------------------------------------------------------- the handler
\* array.filter(Boolean) on strings
FilterBoolean(s) == FilterSeq(s, Range(s) \ {""})

\* faulty variant of IsValidSource: a source definition is enough
IsValidSourceNoGetter(id) == id \in sources

\* sources[id] && getters[id]
IsValidSource(id) == id \in sources /\ id \in getters

\* sourceIds.filter(id => sources[id] && getters[id])
ValidSourceIds(q) ==
  LET sourceIds == FilterBoolean(q.sourceIds)
  IN FilterSeq(sourceIds, {id \in Range(sourceIds) : IsValidSource(id)})

\* caches.find(c => c.id === sourceId): <<>> or <<entry>>
FindCache(entries, sourceId) == entries[sourceId]

\* faulty variant of WithinInterval: the comparison is reversed
WithinIntervalReversed(cache, sourceId, t) ==
  cache # <<>> /\ t - cache[1].updated > interval[sourceId]

\* cache && now - cache.updated < sources[sourceId].interval
WithinInterval(cache, sourceId, t) ==
  cache # <<>> /\ t - cache[1].updated < interval[sourceId]

\* faulty variant of WithinTTL: the comparison is reversed
WithinTTLReversed(cache, t) == cache # <<>> /\ t - cache[1].updated > TTL

\* cache && now - cache.updated < TTL
WithinTTL(cache, t) == cache # <<>> /\ t - cache[1].updated < TTL

\* faulty variant of SourcePromise: the cache is consulted even when forced
SourcePromiseCacheFirst(sourceId, cache, forceLatest, t) ==
  IF WithinInterval(cache, sourceId, t)
    THEN << [ id |-> sourceId, items |-> cache[1].items, updatedTime |-> t,
              status |-> "success" ] >>
    ELSE <<>>

\* the promise the handler makes for one position of validSourceIds:
\* <<>> when fetchLatestData was called and its getter is pending
SourcePromise(sourceId, cache, forceLatest, t) ==
  IF forceLatest THEN <<>>
  ELSE IF WithinInterval(cache, sourceId, t)
    THEN << [ id |-> sourceId, items |-> cache[1].items, updatedTime |-> t,
              status |-> "success" ] >>
  ELSE IF WithinTTL(cache, t)
    THEN << [ id |-> sourceId, items |-> cache[1].items,
              updatedTime |-> cache[1].updated, status |-> "cache" ] >>
  ELSE <<>>

\* the handler up to the await of Promise.all
Request(q, tableOk) ==
  /\ query = <<>>
  /\ query' = <<q>>
  /\ LET validSourceIds == ValidSourceIds(q)
     IN IF validSourceIds = <<>>
          THEN /\ reply' = << [statusCode |-> 400, body |-> <<>>] >>
               /\ UNCHANGED << caches, results, invoked, cacheReads >>
          ELSE IF ~tableOk
            THEN /\ reply' = << [statusCode |-> 500, body |-> <<>>] >>
                 /\ UNCHANGED << caches, results, invoked, cacheReads >>
            ELSE /\ cacheReads' = cacheReads + 1
                 /\ caches' = cacheTable
                 /\ results' =
                      [ i \in 1..Len(validSourceIds) |->
                          SourcePromise(validSourceIds[i],
                                        FindCache(cacheTable, validSourceIds[i]),
                                        q.latest, now) ]
                 /\ invoked' =
                      { [index |-> i, id |-> validSourceIds[i], forceLatest |-> q.latest] :
                          i \in { j \in 1..Len(validSourceIds) :
                                    SourcePromise(validSourceIds[j],
                                                  FindCache(cacheTable, validSourceIds[j]),
                                                  q.latest, now) = <<>> } }
                 /\ UNCHANGED reply
  /\ UNCHANGED << cacheTable, upstream, cacheSets, syncVars, uiVars, restVars, catalog, pre, keys >>

\* the getter call of position i has not settled
Pending(i) == i \in 1..Len(results) /\ results[i] = <<>> /\ reply = <<>>

\* cacheTable.set(sourceId, items): the entry is overwritten wholesale
CacheSet(table, sourceId, items, t) ==
  [table EXCEPT ![sourceId] = << [id |-> sourceId, items |-> items, updated |-> t] >>]

\* updateCache: nothing is written for an empty list
updateCache(i, sourceId, items) ==
  IF items = <<>>
    THEN UNCHANGED << cacheTable, cacheSets >>
    ELSE /\ cacheTable' = CacheSet(cacheTable, sourceId, items, now)
         /\ cacheSets' = cacheSets \cup { [index |-> i, id |-> sourceId, items |-> items] }

\* the result of fetchLatestData when its getter resolved with newData
FetchedResult(sourceId, newData, t) ==
  [ id |-> sourceId, items |-> Slice(newData, MAX_ITEMS_PER_SOURCE), updatedTime |-> t,
    status |-> "success" ]

\* faulty variant of DegradedResult: the cache entry is not used
DegradedResultEmpty(sourceId, cache, t) ==
  [ id |-> sourceId, items |-> <<>>, updatedTime |-> t, status |-> "success" ]

\* the result of fetchLatestData when its getter threw
DegradedResult(sourceId, cache, t) ==
  IF cache # <<>>
    THEN [ id |-> sourceId, items |-> cache[1].items, updatedTime |-> cache[1].updated,
           status |-> "cache" ]
    ELSE [ id |-> sourceId, items |-> <<>>, updatedTime |-> t, status |-> "success" ]

\* the getter of position i resolves and fetchLatestData returns
FetchOk(i, newData) ==
  /\ Pending(i)
  /\ LET sourceId == ValidSourceIds(query[1])[i]
         fetched == FetchedResult(sourceId, newData, now)
     IN /\ upstream[sourceId] = <<newData>>
        /\ updateCache(i, sourceId, fetched.items)
        /\ results' = [results EXCEPT ![i] = <<fetched>>]
  /\ UNCHANGED << caches, upstream, query, invoked, cacheReads, reply, syncVars, uiVars, restVars, catalog,
                  pre, keys >>

\* the getter of position i throws and fetchLatestData recovers
FetchFail(i) ==
  /\ Pending(i)
  /\ LET sourceId == ValidSourceIds(query[1])[i]
     IN /\ upstream[sourceId] = <<>>
        /\ results' = [results EXCEPT ![i] =
                         << DegradedResult(sourceId, FindCache(caches, sourceId), now) >>]
  /\ UNCHANGED << cacheTable, caches, upstream, query, invoked, cacheReads, cacheSets, reply,
                  syncVars, uiVars, restVars, catalog, pre, keys >>

\* items.map(item => ({ ...item, originalSourceId, originalSourceName, timestamp }))
Annotate(result, clock) ==
  [ k \in 1..Len(result.items) |->
      [ id                 |-> result.items[k].id,
        pubDate            |-> result.items[k].pubDate,
        extraDate          |-> result.items[k].extraDate,
        originalSourceId   |-> result.id,
        originalSourceName |-> sourceName[result.id],
        timestamp          |-> getItemTimestamp(result.items[k], clock) ] ]

\* faulty variant of FlatMapAnnotate: only the first result is merged
FlatMapAnnotateFirst(rs, clock) ==
  IF rs = <<>> THEN <<>> ELSE Annotate(Head(rs)[1], clock)

RECURSIVE FlatMapAnnotate(_, _)
\* results.flatMap(...)
FlatMapAnnotate(rs, clock) ==
  IF rs = <<>> THEN <<>>
  ELSE Annotate(Head(rs)[1], clock) \o FlatMapAnnotate(Tail(rs), clock)

RECURSIVE InsertByTimestamp(_, _)
\* item placed behind every element that does not sort after it
InsertByTimestamp(sorted, item) ==
  IF sorted = <<>> THEN <<item>>
  ELSE IF Head(sorted).timestamp >= item.timestamp
         THEN <<Head(sorted)>> \o InsertByTimestamp(Tail(sorted), item)
         ELSE <<item>> \o sorted

\* faulty variant of SortByTimestamp: the merged list is left as it is
SortByTimestampNone(s) == s

RECURSIVE SortByTimestamp(_)
\* array.sort((a, b) => b.timestamp - a.timestamp): descending and stable
SortByTimestamp(s) ==
  IF s = <<>> THEN <<>>
  ELSE InsertByTimestamp(SortByTimestamp(SubSeq(s, 1, Len(s) - 1)), s[Len(s)])

\* the body of the response
AggregateBody(q, rs, t, clock) ==
  LET allNewsItems == FlatMapAnnotate(rs, clock)
      sortedItems == Slice(SortByTimestamp(allNewsItems), MAX_AGGREGATED_ITEMS)
  IN [ status      |-> "success",
       sourceIds   |-> ValidSourceIds(q),
       updatedTime |-> t,
       items       |-> sortedItems,
       total       |-> Len(allNewsItems) ]

\* Promise.all has settled: the items are merged at clock reading clock
Respond(clock) ==
  /\ query # <<>>
  /\ reply = <<>>
  /\ \A i \in 1..Len(results) : results[i] # <<>>
  /\ reply' = << [ statusCode |-> 200,
                   body |-> << AggregateBody(query[1], results, now, clock) >> ] >>
  /\ UNCHANGED << cacheTable, caches, upstream, query, results, invoked, cacheReads,
                  cacheSets, syncVars, uiVars, restVars, catalog, pre, keys >>

\* ------------------------------------------------------------ specification
\* the sync session is not running
SyncIdle ==
  /\ jwt = FALSE
  /\ storage = <<>>
  /\ primitiveMetadata = defaultState
  /\ server = <<>>
  /\ lastSyncedRef = <<>>
  /\ timer = NoTimer
  /\ mounted = FALSE
  /\ pull = "none"
  /\ pushes = {}
  /\ toasts = 0
  /\ pushSent = 0
  /\ lastWrite = 0
  /\ pushedSinceWrite = 0

InitAgg ==
  /\ catalog = DefaultCatalog
  /\ SyncIdle
  /\ UiIdle
  /\ RestIdle
  /\ now = RequestTime
  /\ pre = <<>>
  /\ keys = <<>>
  /\ cacheTable \in { t \in [DefaultCatalog.sources -> UNION { CacheEntries(x) : x \in getters }] :
                        \A x \in DefaultCatalog.sources : t[x] \in CacheEntries(x) }
  /\ caches = <<>>
  /\ upstream \in [getters -> { <<>> } \cup { <<newData>> : newData \in GetterResults }]
  /\ query = <<>>
  /\ results = <<>>
  /\ invoked = {}
  /\ cacheReads = 0
  /\ cacheSets = {}
  /\ reply = <<>>

NextAgg ==
  \/ \E q \in Queries, tableOk \in BOOLEAN : Request(q, tableOk)
  \/ \E i \in 1..Len(results), newData \in GetterResults : FetchOk(i, newData)
  \/ \E i \in 1..Len(results) : FetchFail(i)
  \/ \E clock \in {now, now + MergeDelay} : Respond(clock)

SpecAgg == InitAgg /\ [][NextAgg]_vars

\* ============================================================================
\* Claims about the aggregation endpoint
\* ============================================================================

\* the requested ids that have both a source definition and a getter, in order
RequestedValid == FilterSeq(query[1].sourceIds, sources \cap getters)

\* the request was answered with this status code
Answered(statusCode) == reply # <<>> /\ reply[1].statusCode = statusCode

\* the getter of id x was called for some position
Invoked(x) == \E r \in invoked : r.id = x

\* a cache write of id x was requested
CacheWritten(x) == \E w \in cacheSets : w.id = x

\* C11: a request whose id list is empty or holds no id with both a source
\* definition and a getter is answered with status 400, and for it no getter is
\* invoked, the cache is not read and no cache write is requested.
C11_NoValidSources ==
  (query # <<>> /\ RequestedValid = <<>>) =>
     /\ Answered(400)
     /\ invoked = {}
     /\ cacheReads = 0
     /\ cacheSets = {}

\* a request naming only a source without getter and an unknown id was refused
C11_Witness ==
  /\ query # <<>>
  /\ query[1].sourceIds = << "old", "zz" >>
  /\ Answered(400)

\* the entry the request read for x is younger than the refresh interval of x
FreshEntry(x) == caches[x] # <<>> /\ now - caches[x][1].updated < interval[x]

\* C12: in a non-forced request, a valid source whose cache entry is younger
\* than its refresh interval gets the cached items verbatim with status
\* "success" and the current time, its getter is never invoked and no cache
\* write is requested for it.
C12_FreshCacheServed ==
  (query # <<>> /\ ~query[1].latest /\ cacheReads > 0) =>
     \A i \in 1..Len(RequestedValid) :
        FreshEntry(RequestedValid[i]) =>
           /\ results[i] = << [ id          |-> RequestedValid[i],
                                items       |-> caches[RequestedValid[i]][1].items,
                                updatedTime |-> now,
                                status      |-> "success" ] >>
           /\ ~Invoked(RequestedValid[i])
           /\ ~CacheWritten(RequestedValid[i])

\* a non-forced request for a source with a fresh entry was answered from it
C12_Witness ==
  /\ query # <<>>
  /\ ~query[1].latest
  /\ Answered(200)
  /\ \E i \in 1..Len(RequestedValid) :
        /\ FreshEntry(RequestedValid[i])
        /\ results[i][1].items = caches[RequestedValid[i]][1].items
        /\ reply[1].body[1].total >= Len(results[i][1].items)

\* the getter of position i was called, has thrown and fetchLatestData returned
FetchFailed(i) ==
  /\ i \in 1..Len(results)
  /\ results[i] # <<>>
  /\ \E r \in invoked : r.index = i
  /\ upstream[RequestedValid[i]] = <<>>

\* C13: when the getter of a source throws, the result for that source is the
\* items of the cache entry with status "cache" and the entry's time if the
\* source has an entry, however old, and an empty list with status "success"
\* if it has none; the request is not failed.
C13_FetchFailureDegrades ==
  /\ \A i \in 1..Len(results) :
        FetchFailed(i) =>
           LET x == RequestedValid[i]
           IN IF caches[x] # <<>>
                THEN results[i] = << [ id |-> x, items |-> caches[x][1].items,
                                       updatedTime |-> caches[x][1].updated,
                                       status |-> "cache" ] >>
                ELSE results[i] = << [ id |-> x, items |-> <<>>, updatedTime |-> now,
                                       status |-> "success" ] >>
  /\ (reply # <<>> /\ invoked # {}) => Answered(200)

\* one request in which a failed source fell back to an entry as old as TTL and
\* another failed source without entry gave the empty list
C13_Witness ==
  /\ Answered(200)
  /\ \E i, j \in 1..Len(results) :
        /\ FetchFailed(i) /\ FetchFailed(j)
        /\ caches[RequestedValid[i]] # <<>>
        /\ now - caches[RequestedValid[i]][1].updated >= TTL
        /\ results[i][1].status = "cache"
        /\ caches[RequestedValid[j]] = <<>>
        /\ results[j][1].items = <<>>

\* the body of a successful response
Body == reply[1].body[1]

RECURSIVE SumLen(_)
\* the number of items of all per-source results
SumLen(rs) == IF rs = <<>> THEN 0 ELSE Len(Head(rs)[1].items) + SumLen(Tail(rs))

\* how many returned items are item k of source x
CountReturned(x, k) ==
  Cardinality({ j \in 1..Len(Body.items) :
                  Body.items[j].originalSourceId = x /\ Body.items[j].id = k })

\* how many items of the per-source results are item k of source x
CountMerged(x, k) ==
  Cardinality(UNION { { <<i, j>> : j \in { n \in 1..Len(results[i][1].items) :
                                            results[i][1].items[n].id = k } } :
                      i \in { m \in 1..Len(results) : results[m][1].id = x } })

\* C14 as stated: a served request succeeds and the response holds all items of
\* every per-source result (as many items of each source as its results hold).
C14_AllItemsReturned ==
  /\ (reply # <<>> /\ cacheReads > 0) => Answered(200)
  /\ Answered(200) =>
       \A i \in 1..Len(results) : \A n \in 1..Len(results[i][1].items) :
          CountReturned(results[i][1].id, results[i][1].items[n].id)
            = CountMerged(results[i][1].id, results[i][1].items[n].id)

\* C14: whatever getters fail, a request that could read the cache is answered
\* with status 200; total is the number of items of all per-source results;
\* every returned item is an item of a per-source result tagged with its source;
\* all of them are returned when there are at most 50, otherwise exactly 50.
C14_FailureIsolation ==
  /\ (reply # <<>> /\ cacheReads > 0) => Answered(200)
  /\ Answered(200) =>
       /\ Body.total = SumLen(results)
       /\ Len(Body.items) =
            (IF Body.total <= MAX_AGGREGATED_ITEMS THEN Body.total ELSE MAX_AGGREGATED_ITEMS)
       /\ \A j \in 1..Len(Body.items) :
            /\ Body.items[j].originalSourceName = sourceName[Body.items[j].originalSourceId]
            /\ CountReturned(Body.items[j].originalSourceId, Body.items[j].id)
                 <= CountMerged(Body.items[j].originalSourceId, Body.items[j].id)
       /\ Body.total <= MAX_AGGREGATED_ITEMS =>
            \A i \in 1..Len(results) : \A n \in 1..Len(results[i][1].items) :
               CountReturned(results[i][1].id, results[i][1].items[n].id)
                 = CountMerged(results[i][1].id, results[i][1].items[n].id)

\* the scenario of the claim: a forced request for "b" and "a", "a" delivers
\* three items, "b" fails and has no cache entry
C14_Witness ==
  /\ Answered(200)
  /\ query[1].latest
  /\ RequestedValid = << "b", "a" >>
  /\ upstream["a"] = << NewsItems(1, 3) >>
  /\ upstream["b"] = <<>>
  /\ caches["b"] = <<>>
  /\ Body.total = 3
  /\ Len(Body.items) = 3
  /\ \A j \in 1..3 : Body.items[j].originalSourceId = "a"

IsSlice(s, t, n) ==
  /\ Len(s) = (IF Len(t) <= n THEN Len(t) ELSE n)
  /\ \A k \in 1..Len(s) : s[k] = t[k]

\* C16: a forced request that reads the cache invokes the getter of every valid
\* requested position with forceLatest = TRUE, whatever the cache holds, and a
\* getter that succeeds gives the first 10 fetched items with status "success".
C16_ForceFresh ==
  (query # <<>> /\ query[1].latest /\ cacheReads > 0) =>
     \A i \in 1..Len(RequestedValid) :
        /\ [index |-> i, id |-> RequestedValid[i], forceLatest |-> TRUE] \in invoked
        /\ (results[i] # <<>> /\ upstream[RequestedValid[i]] # <<>>) =>
              /\ results[i][1].status = "success"
              /\ results[i][1].updatedTime = now
              /\ Len(results[i][1].items) <= MAX_ITEMS_PER_SOURCE
              /\ IsSlice(results[i][1].items, upstream[RequestedValid[i]][1],
                         MAX_ITEMS_PER_SOURCE)

\* a forced request fetched a source that had a fresh cache entry and got more
\* than 10 items from it
C16_Witness ==
  /\ query # <<>>
  /\ query[1].latest
  /\ Answered(200)
  /\ \E i \in 1..Len(RequestedValid) :
        /\ FreshEntry(RequestedValid[i])
        /\ upstream[RequestedValid[i]] # <<>>
        /\ Len(upstream[RequestedValid[i]][1]) > MAX_ITEMS_PER_SOURCE
        /\ Len(results[i][1].items) = MAX_ITEMS_PER_SOURCE


\* ============================================================================
\* The key of the response cache in front of the aggregation endpoint (getKey
\* of defineCachedEventHandler). A key is modelled by the list of the pieces it
\* is concatenated from; ids hold neither "," nor "-latest-".
\* ============================================================================

\* ------------------------------------------------------------------ bounds
\* number of requests whose keys are compared
MaxRequests == 2

\* ------------------------------------------------------------ input values
\* query.sourceIds after split(",")
KeyIdLists ==
  { << "" >>, << "a" >>, << "a", "a" >>, << "a", "b" >>, << "b", "a" >>,
    << "b", "zz", "", "a" >> }
\* the ids in the order of their UTF-16 code units, which array.sort() uses
CodeUnitOrder == << "a", "b", "old", "zz" >>

\* ------------------------------------------------------------------ getKey
\* the place of an id in the order of array.sort()
Rank(id) == CHOOSE i \in 1..Len(CodeUnitOrder) : CodeUnitOrder[i] = id

RECURSIVE InsertByRank(_, _)
InsertByRank(sorted, id) ==
  IF sorted = <<>> THEN <<id>>
  ELSE IF Rank(Head(sorted)) <= Rank(id)
         THEN <<Head(sorted)>> \o InsertByRank(Tail(sorted), id)
         ELSE <<id>> \o sorted

RECURSIVE SortIds(_)
\* array.sort()
SortIds(s) ==
  IF s = <<>> THEN <<>> ELSE InsertByRank(SortIds(Tail(s)), Head(s))

RECURSIVE Join(_)
\* array.join(",")
Join(s) ==
  IF s = <<>> THEN <<>>
  ELSE IF Len(s) = 1 THEN s
  ELSE << Head(s), "," >> \o Join(Tail(s))

\* `aggregate:${sourceIds}${latestParam}` with Date.now() reading t
getKey(q, t) ==
  LET sourceIds == Join(SortIds(FilterBoolean(q.sourceIds)))
      latestParam == IF q.latest THEN << "-latest-", ToString(t) >> ELSE <<>>
  IN << "aggregate:" >> \o sourceIds \o latestParam

\* a request reaches the cached handler and its key is computed
KeyRequest(q) ==
  /\ Len(keys) < MaxRequests
  /\ keys' = Append(keys, [query |-> q, at |-> now, key |-> getKey(q, now)])
  /\ UNCHANGED << syncVars, uiVars, restVars, catalog, pre, aggVars >>

\* no aggregation request is being served
AggIdle ==
  /\ cacheTable = <<>>
  /\ caches = <<>>
  /\ upstream = <<>>
  /\ query = <<>>
  /\ results = <<>>
  /\ invoked = {}
  /\ cacheReads = 0
  /\ cacheSets = {}
  /\ reply = <<>>

InitKey ==
  /\ catalog = DefaultCatalog
  /\ SyncIdle
  /\ UiIdle
  /\ RestIdle
  /\ AggIdle
  /\ now = TickMs
  /\ pre = <<>>
  /\ keys = <<>>

NextKey ==
  \/ \E q \in [sourceIds : KeyIdLists, latest : BOOLEAN] : KeyRequest(q)
  \/ Tick

SpecKey == InitKey /\ [][NextKey]_vars

\* ------------------------------------------------------------------ claims
\* the set of ids a query asks for
IdSet(q) == Range(q.sourceIds) \ {""}

\* C17: two non-forced requests get the same key exactly when they ask for the
\* same set of ids, whatever the order of the ids and however often an id is
\* repeated.
C17_KeyDependsOnIdSet ==
  \A i, j \in 1..Len(keys) :
     (~keys[i].query.latest /\ ~keys[j].query.latest) =>
        ((IdSet(keys[i].query) = IdSet(keys[j].query)) <=> (keys[i].key = keys[j].key))

\* C18: the key of a forced request differs from the key of every other
\* request, forced or not, also of one for the same ids at the same clock
\* reading.
C18_ForcedKeyUnique ==
  \A i, j \in 1..Len(keys) :
     (i # j /\ keys[i].query.latest) => keys[i].key # keys[j].key


\* ============================================================================
\* preprocessMetadata on its own: a record is preprocessed under some catalog,
\* and the result is preprocessed again, directly or after it went through
\* JSON.stringify and JSON.parse (the "metadata" item of localStorage).
\* ============================================================================

\* ------------------------------------------------------------ input values
\* a catalog with a chain of redirects: "old" -> "mid" -> "a"
ChainCatalog ==
  [ sources         |-> {"a", "mid", "old"},
    redirect        |-> [k \in {"a", "mid", "old"} |->
                           IF k = "old" THEN "mid" ELSE "a"],
    initialMetadata |-> [focus |-> <<>>, tech |-> <<"a">>] ]
\* a catalog whose redirect leads to an id without definition
DanglingCatalog ==
  [ sources         |-> {"a", "old"},
    redirect        |-> [k \in {"a", "old"} |-> IF k = "old" THEN "gone" ELSE k],
    initialMetadata |-> [focus |-> <<>>, tech |-> <<"a">>] ]
\* a catalog whose column defaults hold a redirected id
RedirectedDefaultCatalog ==
  [ sources         |-> {"a", "b", "old"},
    redirect        |-> [k \in {"a", "b", "old"} |-> IF k = "old" THEN "a" ELSE k],
    initialMetadata |-> [focus |-> <<>>, tech |-> <<"old", "b">>] ]
\* a catalog without redirects and with two fixed columns besides the favorites
PlainCatalog ==
  [ sources         |-> {"a", "b"},
    redirect        |-> [k \in {"a", "b"} |-> k],
    initialMetadata |-> [focus |-> <<>>, tech |-> <<"b">>, world |-> <<"a", "b">>] ]
Catalogs ==
  { DefaultCatalog, PlainCatalog, ChainCatalog, DanglingCatalog, RedirectedDefaultCatalog }

\* source lists a stored column can hold: redirected, unknown and repeated ids
StoredLists == { <<>>, << "old", "b" >>, << "b", "zz", "a", "b" >>, << "mid", "old" >> }
\* the data of a record: any of the columns can be missing, and a column that is
\* no longer fixed ("legacy") can be left over
StoredData ==
  UNION { [dom -> StoredLists] : dom \in SUBSET {"focus", "tech", "legacy"} }
\* the records preprocessMetadata is given
InputRecords ==
  [ data            : StoredData,
    pinnedColumns   : { Undefined, Some(<< "tech" >>) },
    aggregatedViews : { Undefined, Some(<< View1 >>) },
    action          : { "init", "sync" },
    updatedTime     : { 4000 } ]

\* ----------------------------------------------------------- serialisation
\* JSON.stringify(record): the properties that are undefined are left out
Stringify(m) ==
  [ k \in {"data", "action", "updatedTime"} \cup
          { o \in {"pinnedColumns", "aggregatedViews"} : m[o].def } |->
      IF k \in {"pinnedColumns", "aggregatedViews"} THEN m[k].val ELSE m[k] ]

\* JSON.parse(text): a property that is left out reads as undefined
Parse(text) ==
  [ data            |-> text.data,
    action          |-> text.action,
    updatedTime     |-> text.updatedTime,
    pinnedColumns   |-> IF "pinnedColumns" \in DOMAIN text
                          THEN Some(text.pinnedColumns) ELSE Undefined,
    aggregatedViews |-> IF "aggregatedViews" \in DOMAIN text
                          THEN Some(text.aggregatedViews) ELSE Undefined ]

\* ----------------------------------------------------------------- actions
\* preprocessMetadata is applied to the input record
Preprocess ==
  /\ pre # <<>>
  /\ pre[1].once = <<>>
  /\ pre' = << [pre[1] EXCEPT !.once = << preprocessMetadata(pre[1].input) >>] >>
  /\ UNCHANGED << syncVars, uiVars, restVars, catalog, keys, aggVars >>

\* preprocessMetadata is applied to its own output, as it is or as it reads
\* after having been stored
Reprocess(stored) ==
  /\ pre # <<>>
  /\ pre[1].once # <<>>
  /\ pre[1].twice = <<>>
  /\ pre' = << [pre[1] EXCEPT
                  !.twice = << preprocessMetadata(IF stored
                                                    THEN Parse(Stringify(pre[1].once[1]))
                                                    ELSE pre[1].once[1]) >>,
                  !.stored = stored] >>
  /\ UNCHANGED << syncVars, uiVars, restVars, catalog, keys, aggVars >>

InitPre ==
  /\ catalog \in Catalogs
  /\ SyncIdle
  /\ UiIdle
  /\ RestIdle
  /\ AggIdle
  /\ now = TickMs
  /\ keys = <<>>
  /\ pre \in { << [input |-> r, once |-> <<>>, twice |-> <<>>, stored |-> FALSE] >> :
                 r \in InputRecords }

NextPre ==
  \/ Preprocess
  \/ \E stored \in BOOLEAN : Reprocess(stored)

SpecPre == InitPre /\ [][NextPre]_vars

\* ------------------------------------------------------------------ claims
\* every redirect leads to a catalog id that is not redirected itself, and the
\* defaults of the fixed columns hold no redirected id
WellFormed(cat) ==
  /\ \A k \in cat.sources :
        /\ cat.redirect[k] \in cat.sources
        /\ cat.redirect[cat.redirect[k]] = cat.redirect[k]
  /\ \A c \in DOMAIN cat.initialMetadata \ {"focus"} :
        \A id \in Range(cat.initialMetadata[c]) \cap cat.sources : cat.redirect[id] = id

\* preprocessMetadata was applied a second time
Reprocessed == pre # <<>> /\ pre[1].twice # <<>>

\* C19 as stated: under every catalog, preprocessing the preprocessed record
\* again, directly or after a JSON round trip, gives the preprocessed record.
C19_Idempotent == Reprocessed => pre[1].twice = pre[1].once

\* C19: under every catalog whose redirects lead to catalog ids that are not
\* redirected themselves and whose column defaults hold no redirected id,
\* preprocessing the preprocessed record again, directly or after a JSON round
\* trip, gives the preprocessed record.
C19_IdempotentWellFormed ==
  (Reprocessed /\ WellFormed(catalog)) => pre[1].twice = pre[1].once

\* a record with a redirected favorite, a column left out and no views was
\* preprocessed, stored, read back and preprocessed again under the catalog of
\* the build
C19_Witness ==
  /\ Reprocessed
  /\ pre[1].stored
  /\ catalog = DefaultCatalog
  /\ DOMAIN pre[1].input.data = {"focus"}
  /\ pre[1].input.data.focus = << "old", "b" >>
  /\ ~pre[1].input.aggregatedViews.def
  /\ pre[1].once[1].data.focus = << "a", "b" >>
  /\ pre[1].twice = pre[1].once

\* the ids of a stored column that are still valid for column c: they have a
\* definition and their canonical id is one of the defaults of c
StillValid(c) ==
  { id \in sources : handleSourceRedirect(id) \in Range(initialMetadata[c]) }

\* the entry C20 describes for column c: the still-valid ids in stored order,
\* rewritten to their canonical id, then the defaults not already present
ClaimedColumn(data, c) ==
  LET kept == MapRedirect(FilterSeq(ColumnOf(data, c), StillValid(c)))
  IN kept \o FilterSeq(initialMetadata[c], Range(initialMetadata[c]) \ Range(kept))

\* C20: the output of preprocessMetadata has an entry for every fixed column;
\* each entry but the favorites is the input's still-valid ids in stored order,
\* rewritten to their canonical id, followed by the defaults not yet present;
\* pinnedColumns and aggregatedViews are collections (empty when the input has
\* none); updatedTime and action are those of the input.
C20_PreprocessShape ==
  (pre # <<>> /\ pre[1].once # <<>>) =>
     LET input == pre[1].input
         output == pre[1].once[1]
     IN /\ DOMAIN output.data = DOMAIN initialMetadata
        /\ \A c \in DOMAIN initialMetadata \ {"focus"} :
              output.data[c] = ClaimedColumn(input.data, c)
        /\ output.pinnedColumns.def
        /\ output.pinnedColumns.val =
             (IF input.pinnedColumns.def THEN input.pinnedColumns.val ELSE <<>>)
        /\ output.aggregatedViews.def
        /\ output.aggregatedViews.val =
             (IF input.aggregatedViews.def THEN input.aggregatedViews.val ELSE <<>>)
        /\ output.updatedTime = input.updatedTime
        /\ output.action = input.action


\* ============================================================================
\* The read of currentSourcesAtom: the sources of the category on display,
\* the favorited ones first.
\* ============================================================================

\* ------------------------------------------------------------------ bounds
\* longest source list a category holds in the store
MaxStored == 3

\* ------------------------------------------------------------ input values
\* a catalog with its column and type attributes: "a", "b", "c" belong to the
\* column "tech", "h" to another column, and "b" and "h" are of type "hottest"
CategoryCatalog ==
  [ sources         |-> {"a", "b", "c", "h"},
    redirect        |-> [k \in {"a", "b", "c", "h"} |-> k],
    initialMetadata |-> [focus |-> <<>>, tech |-> <<"a", "b", "c">>, hottest |-> <<"b", "h">>],
    column          |-> [k \in {"a", "b", "c", "h"} |-> IF k = "h" THEN "world" ELSE "tech"],
    type            |-> [k \in {"a", "b", "c", "h"} |-> IF k \in {"b", "h"} THEN "hottest" ELSE ""] ]

\* the lists of at most n ids of S in which no id is repeated
Orderings(S, n) ==
  { l \in UNION { [1..k -> S] : k \in 0..n } : \A i, j \in 1..Len(l) : l[i] = l[j] => i = j }

\* the data of the store: favorites, and the lists of two categories, which can
\* hold ids of another category and can lack ids of their own
CategoryData ==
  [ focus   : Orderings({"a", "b", "c", "h"}, MaxStored - 1),
    tech    : Orderings({"a", "b", "c", "h"}, MaxStored),
    hottest : Orderings({"a", "b", "h"}, MaxStored - 1) ]

\* ------------------------------------------------------ currentSourcesAtom
\* isSourceInCategory(sourceId, categoryId)
isSourceInCategory(sourceId, categoryId) ==
  /\ sourceId \in sources
  /\ \/ categoryId = "hottest" /\ catalog.type[sourceId] = "hottest"
     \/ categoryId = "realtime" /\ catalog.type[sourceId] = "realtime"
     \/ catalog.column[sourceId] = categoryId

RECURSIVE PartitionSaved(_, _, _)
\* the loop over savedOrderForCurrentCategory: ids of another category are
\* skipped, the others go to orderedFocusedSources or to orderedRestSources
PartitionSaved(saved, categoryId, focusSourcesSet) ==
  IF saved = <<>> THEN [orderedFocusedSources |-> <<>>, orderedRestSources |-> <<>>]
  ELSE LET sourceId == Head(saved)
           later == PartitionSaved(Tail(saved), categoryId, focusSourcesSet)
       IN IF ~isSourceInCategory(sourceId, categoryId) THEN later
          ELSE IF sourceId \in focusSourcesSet
            THEN [later EXCEPT !.orderedFocusedSources = <<sourceId>> \o @]
            ELSE [later EXCEPT !.orderedRestSources = <<sourceId>> \o @]

\* faulty variant of NewFocused: the favorites already placed are not left out
NewFocusedAll(focusSources, categoryId, currentSavedFocusedSet) ==
  FilterSeq(focusSources, { x \in Range(focusSources) : isSourceInCategory(x, categoryId) })

\* newFocusedSourcesInThisCategory
NewFocused(focusSources, categoryId, currentSavedFocusedSet) ==
  FilterSeq(focusSources, { x \in Range(focusSources) :
                              isSourceInCategory(x, categoryId) /\ x \notin currentSavedFocusedSet })

\* the read function of currentSourcesAtom
currentSources(id, metadataData) ==
  IF id = "focus" THEN ColumnOf(metadataData, id)
  ELSE LET focusSources == metadataData.focus
           parts == PartitionSaved(ColumnOf(metadataData, id), id, Range(focusSources))
       IN parts.orderedFocusedSources
            \o NewFocused(focusSources, id, Range(parts.orderedFocusedSources))
            \o parts.orderedRestSources

\* ----------------------------------------------------------------- actions
\* the user opens a category
SelectColumn(id) ==
  /\ id # currentColumnID
  /\ currentColumnID' = id
  /\ effective' = <<>>
  /\ UNCHANGED << syncVars, catalog, pre, keys, aggVars, restCalls, restarted, activeViewId, lastMutation, restVars >>

\* a component reads currentSourcesAtom
ReadCurrentSources ==
  /\ effective = <<>>
  /\ effective' = << currentSources(currentColumnID, primitiveMetadata.data) >>
  /\ UNCHANGED << syncVars, catalog, pre, keys, aggVars, restCalls, restarted, currentColumnID, activeViewId,
                  lastMutation, restVars >>

InitSrc ==
  /\ catalog = CategoryCatalog
  /\ AggIdle
  /\ UiIdle
  /\ RestIdle
  /\ pre = <<>>
  /\ keys = <<>>
  /\ now = TickMs
  /\ jwt = FALSE
  /\ storage = <<>>
  /\ primitiveMetadata \in { [defaultState EXCEPT !.data = d] : d \in CategoryData }
  /\ server = <<>>
  /\ lastSyncedRef = <<>>
  /\ timer = NoTimer
  /\ mounted = FALSE
  /\ pull = "none"
  /\ pushes = {}
  /\ toasts = 0
  /\ pushSent = 0
  /\ lastWrite = 0
  /\ pushedSinceWrite = 0

NextSrc ==
  \/ \E id \in DOMAIN CategoryCatalog.initialMetadata : SelectColumn(id)
  \/ ReadCurrentSources

SpecSrc == InitSrc /\ [][NextSrc]_vars

\* ------------------------------------------------------------------ claims
\* the ids of the catalog that belong to a category
InCategory(categoryId) == { x \in sources : isSourceInCategory(x, categoryId) }
\* the sub-list of s with the ids of S
Only(s, S) ==
  LET Test(x) == x \in S IN SelectSeq(s, Test)
\* how often x occurs in s
Occurrences(s, x) == Cardinality({ i \in 1..Len(s) : s[i] = x })

MaxMutations == 2

\* ------------------------------------------------------------ input values
\* names a user gives a view
ViewNames == { "Tech Roundup", "World" }
\* randomUUID(): the k-th id generated, different from every id generated before
randomUUID(k) == ToString(k)
\* the ids a form or a list item can carry: of a stored view, of a created one
ViewIds == { View1.id } \cup { randomUUID(k) : k \in 1..MaxMutations }
\* the sources a user gives a new view
ViewSources == { <<"a", "b">> }
\* the optional name of an update
PartialNames == { Undefined, Some("World") }
\* the optional source list of an update
PartialSources == { Undefined, Some(<<"b">>) }
\* the "metadata" item of localStorage at start-up: none, or a record with a view
StoredViewInits ==
  { <<>>,
    << [ updatedTime |-> 4000, action |-> "manual",
         data |-> [focus |-> <<>>, tech |-> <<"a", "b">>],
         pinnedColumns |-> Some(<<>>), aggregatedViews |-> Some(<<View1>>) ] >> }

\* ------------------------------------------------------ aggregatedViewsAtom
\* the read function of aggregatedViewsAtom: metadata.aggregatedViews || []
aggregatedViews == OrEmpty(primitiveMetadata.aggregatedViews)
\* the ids of the views of a collection
IdsOf(views) == { views[i].id : i \in 1..Len(views) }
\* the names of the views of a collection
NamesOf(views) == { views[i].name : i \in 1..Len(views) }

\* activeAggregatedViewConfigAtom: <<>> for null, or <<the view with the active id>>
activeAggregatedViewConfig ==
  IF activeViewId = <<>> THEN <<>>
  ELSE IF \E i \in 1..Len(aggregatedViews) : aggregatedViews[i].id = activeViewId[1]
         THEN << aggregatedViews[CHOOSE i \in 1..Len(aggregatedViews) :
                                   /\ aggregatedViews[i].id = activeViewId[1]
                                   /\ \A j \in 1..(i - 1) :
                                        aggregatedViews[j].id # activeViewId[1]] >>
         ELSE <<>>

\* ------------------------------------------------------------ mutation hook
\* number of calls of the hook so far
Mutations == IF lastMutation = <<>> THEN 0 ELSE lastMutation[1].seq

\* the record kept of a call of the hook
Mutation(op, id, name, list, result) ==
  << [ seq     |-> Mutations + 1,
       op      |-> op,
       id      |-> id,
       name    |-> name,
       sources |-> list,
       result  |-> result ] >>

\* the session is mounted and the hook can be called once more
CanMutate ==
  /\ mounted
  /\ Mutations < MaxMutations

\* the id the next creation gets
NextViewId == randomUUID(Mutations + 1)

\* createMutation: prev => [...prev, newConfig]
CreatedViews(prev, newConfig) == Append(prev, newConfig)

\* updateMutation: the view with the fields supplied and a fresh updatedAt
UpdatedView(view, name, list, t) ==
  [view EXCEPT !.name = IF name.def THEN name.val ELSE @,
               !.sources = IF list.def THEN list.val ELSE @,
               !.updatedAt = t]

\* updateMutation: prev.map(view => view.id === id ? updatedConfig : view)
UpdatedViews(prev, id, name, list, t) ==
  [i \in 1..Len(prev) |-> IF prev[i].id = id THEN UpdatedView(prev[i], name, list, t)
                          ELSE prev[i]]

\* deleteMutation: prev.filter(view => view.id !== id)
DeletedViews(prev, id) ==
  LET Test(view) == view.id # id IN SelectSeq(prev, Test)

\* createView({ name, sources })
CreateView(name, list, storageOk) ==
  /\ CanMutate
  /\ LET newConfig == [id |-> NextViewId, name |-> name, sources |-> list,
                       createdAt |-> now, updatedAt |-> now]
     IN /\ SetPrimitiveMetadata(
             ViewsUpdate(primitiveMetadata, CreatedViews(aggregatedViews, newConfig)),
             storageOk)
        /\ lastMutation' = Mutation("create", newConfig.id, Some(name), Some(list), "ok")
  /\ UNCHANGED << now, jwt, lastSyncedRef, mounted, pull, pushes, server, toasts, pushSent >>
  /\ UNCHANGED << catalog, pre, keys, aggVars, restCalls, restarted, currentColumnID, effective, activeViewId,
                  restVars >>

\* updateView({ id, data }): the setter is called in every case, and the call
\* fails afterwards when no view had the id
UpdateView(id, name, list, storageOk) ==
  /\ CanMutate
  /\ SetPrimitiveMetadata(
       ViewsUpdate(primitiveMetadata, UpdatedViews(aggregatedViews, id, name, list, now)),
       storageOk)
  /\ lastMutation' = Mutation("update", id, name, list,
                              IF id \in IdsOf(aggregatedViews) THEN "ok" ELSE "NotFound")
  /\ UNCHANGED << now, jwt, lastSyncedRef, mounted, pull, pushes, server, toasts, pushSent >>
  /\ UNCHANGED << catalog, pre, keys, aggVars, restCalls, restarted, currentColumnID, effective, activeViewId,
                  restVars >>

\* handleDeleteView: if (activeViewId === viewId) setActiveViewId(null)
AfterDelete(active, viewId) == IF active = <<viewId>> THEN <<>> ELSE active

\* handleDeleteView(viewId) of a view on display
HandleDeleteView(viewId, storageOk) ==
  /\ CanMutate
  /\ viewId \in IdsOf(aggregatedViews)
  /\ SetPrimitiveMetadata(
       ViewsUpdate(primitiveMetadata, DeletedViews(aggregatedViews, viewId)), storageOk)
  /\ activeViewId' = AfterDelete(activeViewId, viewId)
  /\ lastMutation' = Mutation("delete", viewId, Undefined, Undefined, "ok")
  /\ UNCHANGED << now, jwt, lastSyncedRef, mounted, pull, pushes, server, toasts, pushSent >>
  /\ UNCHANGED << catalog, pre, keys, aggVars, restCalls, restarted, currentColumnID, effective, restVars >>

\* handleViewSelection(viewId) of a view on display
HandleViewSelection(viewId) ==
  /\ mounted
  /\ viewId \in IdsOf(aggregatedViews)
  /\ activeViewId' = IF activeViewId = <<viewId>> THEN <<>> ELSE <<viewId>>
  /\ UNCHANGED << syncVars, catalog, pre, keys, aggVars, restCalls, restarted, currentColumnID, effective,
                  lastMutation, restVars >>

InitViews ==
  /\ OtherIdle
  /\ now = TickMs
  /\ jwt \in BOOLEAN
  /\ storage \in StoredViewInits
  /\ primitiveMetadata = initialState(storage)
  /\ server \in ServerInits
  /\ lastSyncedRef = <<>>
  /\ timer = NoTimer
  /\ mounted = FALSE
  /\ pull = "none"
  /\ pushes = {}
  /\ toasts = 0
  /\ pushSent = 0
  /\ lastWrite = 0
  /\ pushedSinceWrite = 0

NextViews ==
  \/ Mount
  \/ Tick
  \/ PullOk(TRUE)
  \/ \E st \in FailStatuses : PullFail(st)
  \/ \E name \in ViewNames, l \in ViewSources : CreateView(name, l, TRUE)
  \/ \E id \in ViewIds, name \in PartialNames, l \in PartialSources :
       UpdateView(id, name, l, TRUE)
  \/ \E id \in ViewIds : HandleDeleteView(id, TRUE)
  \/ \E id \in ViewIds : HandleViewSelection(id)

SpecViews == InitViews /\ [][NextViews]_vars

\* ------------------------------------------------------------------ claims
\* the step is a call of the mutation hook with the given operation
MutationStep(op) == lastMutation' # lastMutation /\ lastMutation'[1].op = op

\* an update leaves the collection as the claim of C22 says
UpdateApplied ==
  MutationStep("update") =>
    LET m == lastMutation'[1]
        before == aggregatedViews
        after == aggregatedViews'
    IN IF m.id \notin IdsOf(before) THEN m.result = "NotFound"
       ELSE /\ m.result = "ok"
            /\ Len(after) = Len(before)
            /\ \A i \in 1..Len(before) :
                 IF before[i].id # m.id THEN after[i] = before[i]
                 ELSE /\ after[i].id = before[i].id
                      /\ after[i].createdAt = before[i].createdAt
                      /\ after[i].name = (IF m.name.def THEN m.name.val ELSE before[i].name)
                      /\ after[i].sources =
                           (IF m.sources.def THEN m.sources.val ELSE before[i].sources)
                      /\ after[i].updatedAt = now

\* C22: an update fails with NotFound when no view of the collection has the
\* id; otherwise exactly the view with the id changes: the fields supplied take
\* the new values, the others (and id, createdAt) keep theirs, updatedAt is the
\* time of the mutation, and every other view is unchanged.
C22_ViewUpdate == [][UpdateApplied]_vars

\* a creation under a name in use is refused
DuplicateRefused ==
  (MutationStep("create") /\ lastMutation'[1].name.val \in NamesOf(aggregatedViews)) =>
    (lastMutation'[1].result = "NameConflict" /\ aggregatedViews' = aggregatedViews)

\* C23: creating a view under the name of a view of the collection is rejected
\* with NameConflict and leaves the collection unchanged.
C23_DuplicateNameRejected == [][DuplicateRefused]_vars

\* the store shows the mutation right after the call
MutationApplied ==
  lastMutation' # lastMutation =>
    LET m == lastMutation'[1]
        after == aggregatedViews'
    IN /\ primitiveMetadata'.updatedTime > primitiveMetadata.updatedTime
       /\ primitiveMetadata'.action = "manual"
       /\ m.op = "create" => m.id \in IdsOf(after)
       /\ m.op = "delete" => m.id \notin IdsOf(after)
       /\ (m.op = "update" /\ m.result = "ok") =>
            \A i \in 1..Len(after) : after[i].id = m.id => after[i].updatedAt = now

\* C24: right after every create, update and delete of the hook the views of
\* the store reflect the mutation, the updatedTime of the store is larger than
\* before and its action is "manual", whatever the store held before.
C24_MutationSynchronous == [][MutationApplied]_vars

\* C25: the active-view selection is empty or the id of a view of the
\* collection.
C25_SelectionExists ==
  activeViewId # <<>> => activeViewId[1] \in IdsOf(aggregatedViews)



\* ============================================================================
\* The server side of the user's record: the row of the user table (UserTable),
\* the aggregated-view endpoint (server/api/me/aggregated-views/index.ts) and
\* the sync endpoint (server/api/me/sync.ts). A handler runs up to its next
\* await of the database in one step, so requests of one user can overlap.
\* ============================================================================

\* ------------------------------------------------------------------ bounds
\* number of requests the endpoints are sent
MaxServed == 2

\* --------------------------------------------------------------- constants
\* z.string().max(50, ...)
MaxNameLength == 50
\* z.array(z.string()).max(100, ...)
MaxViewSources == 100

\* ------------------------------------------------------------ input values
\* a second stored view
View2 == [id |-> "v2", name |-> "World", sources |-> <<"b">>,
          createdAt |-> 2000, updatedAt |-> 2000]
\* a name of 51 characters
LongName == "123456789012345678901234567890123456789012345678901"
\* a list of 101 sources
ManySources == [i \in 1..(MaxViewSources + 1) |-> "a"]
\* the name of a request body: left out, empty, free, taken, too long
RestNames == { Undefined, Some(""), Some("Daily"), Some("World"), Some(LongName) }
\* the sources of a request body: left out, empty, fine, too many
RestSources == { Undefined, Some(<<>>), Some(<<"a">>), Some(ManySources) }
\* the id parameter of the route: none, the id of a stored view, an unknown id
RestIds == { Undefined, Some("v1"), Some("zz") }
\* the body of a request without body
NoBody == [name |-> Undefined, sources |-> Undefined]
\* the requests the aggregated-view endpoint is sent: creations, updates and
\* deletions of a logged-in user, one request of each method without login,
\* and updates that give a view the name it has
ViewRequests ==
  [ method : {"POST"}, auth : {TRUE}, id : {Undefined},
    body : [name : RestNames, sources : RestSources] ]
  \cup [ method : {"PUT"}, auth : {TRUE}, id : RestIds,
         body : [name : RestNames, sources : RestSources] ]
  \cup [ method : {"DELETE"}, auth : {TRUE}, id : RestIds, body : {NoBody} ]
  \cup [ method : {"POST", "PUT", "DELETE"}, auth : {FALSE}, id : {Some("v1")},
         body : {[name |-> Some("Daily"), sources |-> Some(<<"a">>)]} ]
  \cup [ method : {"PUT"}, auth : {TRUE}, id : {Some(View1.id)},
         body : [name : {Some(View1.name)}, sources : {Undefined, Some(<<"a">>)}] ]
\* the bodies the sync endpoint is posted: data can be left out (malformed),
\* aggregatedViews and pinnedColumns are optional
SyncBodies ==
  [ data            : { Undefined, Some([focus |-> <<"b">>, tech |-> <<"a">>]) },
    updatedTime     : { 2000, 9000 },
    aggregatedViews : { Undefined, Some(<<>>), Some(<<View2>>) },
    pinnedColumns   : { Undefined, Some(<<"tech">>) } ]

\* JSON.parse("{}"): an object without properties
EmptyObject ==
  [data |-> Undefined, aggregated_views_config |-> Undefined, pinnedColumns |-> Undefined]
\* the row of a user at the start: the "" of addUser, or what earlier requests stored
RowInits ==
  { [data |-> <<>>, updated |-> 1000],
    [data |-> << [ data |-> Some([focus |-> <<"a">>, tech |-> <<"a", "b">>]),
                   aggregated_views_config |-> Some(<<View1>>),
                   pinnedColumns |-> Some(<<>>) ] >>,
     updated |-> 7500],
    [data |-> << [ data |-> Undefined,
                   aggregated_views_config |-> Some(<<View1, View2>>),
                   pinnedColumns |-> Undefined ] >>,
     updated |-> 2500] }

\* ---------------------------------------------------------------- UserTable
\* parseUserData(data) and  data ? JSON.parse(data) : {}
parseUserData(data) == IF data = <<>> THEN EmptyObject ELSE data[1]

\* UserTable.getAggregatedViewsConfig: the value under the key, or []
getAggregatedViewsConfig(row) == OrEmpty(parseUserData(row.data).aggregated_views_config)

\* UserTable.setData(id, JSON.stringify(value), updatedTime)
setData(value, updatedTime) == << [data |-> <<value>>, updated |-> updatedTime] >>

\* ------------------------------------------------- aggregated-view endpoint
\* z.string().min(1).max(50)
ValidName(name) == Len(name) >= 1 /\ Len(name) <= MaxNameLength
\* z.array(z.string()).min(1).max(100)
ValidSources(list) == Len(list) >= 1 /\ Len(list) <= MaxViewSources
\* createAggregatedViewSchema.parse(body) does not throw
CreateSchemaOk(body) ==
  /\ body.name.def /\ ValidName(body.name.val)
  /\ body.sources.def /\ ValidSources(body.sources.val)
\* updateAggregatedViewSchema.parse(body) does not throw
UpdateSchemaOk(body) ==
  /\ body.name.def => ValidName(body.name.val)
  /\ body.sources.def => ValidSources(body.sources.val)
  /\ body.name.def \/ body.sources.def

\* what a handler has decided when it reaches its write, or its error
Outcome(statusCode, configs) == [statusCode |-> statusCode, configs |-> configs]

\* faulty variant of NameTaken: no name counts as taken
NameTakenNever(configs, name, except) == FALSE

\* existingConfigs.some((config, idx) => idx !== except && config.name === name)
NameTaken(configs, name, except) ==
  \E idx \in 1..Len(configs) : idx # except /\ configs[idx].name = name

\* handlePostRequest up to the call of setAggregatedViewsConfig
handlePostRequest(body, existingConfigs, t, newId) ==
  IF ~CreateSchemaOk(body) THEN Outcome(400, <<>>)
  ELSE IF NameTaken(existingConfigs, body.name.val, 0) THEN Outcome(409, <<>>)
  ELSE Outcome(200, Append(existingConfigs,
                           [id |-> newId, name |-> body.name.val,
                            sources |-> body.sources.val, createdAt |-> t, updatedAt |-> t]))

\* existingConfigs.findIndex(config => config.id === configId), 0 for -1
FindIndex(configs, configId) ==
  IF \E i \in 1..Len(configs) : configs[i].id = configId
    THEN CHOOSE i \in 1..Len(configs) :
           configs[i].id = configId /\ \A j \in 1..(i - 1) : configs[j].id # configId
    ELSE 0

\* handlePutRequest up to the call of setAggregatedViewsConfig
handlePutRequest(configId, body, existingConfigs, t) ==
  IF ~configId.def THEN Outcome(400, <<>>)
  ELSE IF ~UpdateSchemaOk(body) THEN Outcome(400, <<>>)
  ELSE LET configIndex == FindIndex(existingConfigs, configId.val)
       IN IF configIndex = 0 THEN Outcome(404, <<>>)
          ELSE IF /\ body.name.def
                  /\ body.name.val # existingConfigs[configIndex].name
                  /\ NameTaken(existingConfigs, body.name.val, configIndex)
            THEN Outcome(409, <<>>)
            ELSE Outcome(200, [existingConfigs EXCEPT
                                 ![configIndex] =
                                    [@ EXCEPT !.name = IF body.name.def THEN body.name.val ELSE @,
                                              !.sources = IF body.sources.def
                                                            THEN body.sources.val ELSE @,
                                              !.updatedAt = t]])

\* handleDeleteRequest up to the call of setAggregatedViewsConfig
handleDeleteRequest(configId, existingConfigs) ==
  IF ~configId.def THEN Outcome(400, <<>>)
  ELSE LET filteredConfigs == DeletedViews(existingConfigs, configId.val)
       IN IF Len(filteredConfigs) = Len(existingConfigs) THEN Outcome(404, <<>>)
          ELSE Outcome(200, filteredConfigs)

\* the switch over event.method
Dispatch(req, existingConfigs, t, newId) ==
  IF req.method = "POST" THEN handlePostRequest(req.body, existingConfigs, t, newId)
  ELSE IF req.method = "PUT" THEN handlePutRequest(req.id, req.body, existingConfigs, t)
  ELSE handleDeleteRequest(req.id, existingConfigs)

\* the response of an endpoint (body: <<>>, or <<the object a GET of the sync
\* endpoint returns>>), with the time stamp the row had before
Response(kind, req, statusCode, body) ==
  << [seq |-> served + 1, kind |-> kind, req |-> req, statusCode |-> statusCode,
      body |-> body, before |-> userRow[1].updated] >>

\* a request reaches the aggregated-view endpoint: it is rejected, or the
\* handler reads the stored views and goes on to setAggregatedViewsConfig
ViewsRequest(req) ==
  /\ served < MaxServed
  /\ userRow # <<>>
  /\ served' = served + 1
  /\ IF ~req.auth
       THEN /\ restReply' = Response("views", req, 401, <<>>)
            /\ UNCHANGED << userRow, inflight >>
       ELSE LET out == Dispatch(req, getAggregatedViewsConfig(userRow[1]), now,
                                randomUUID(served + 1))
            IN IF out.statusCode # 200
                 THEN /\ restReply' = Response("views", req, out.statusCode, <<>>)
                      /\ UNCHANGED << userRow, inflight >>
                 ELSE /\ inflight' = inflight \cup
                           { [seq |-> served + 1, req |-> req, configs |-> out.configs,
                              pc |-> "load", existingData |-> EmptyObject] }
                      /\ UNCHANGED << userRow, restReply >>
  /\ UNCHANGED << syncVars, catalog, pre, keys, aggVars, uiVars >>

\* setDataByKey reads the row: existingData
LoadRow(r) ==
  /\ r \in inflight
  /\ r.pc = "load"
  /\ inflight' = (inflight \ {r}) \cup
       { [r EXCEPT !.pc = "store", !.existingData = parseUserData(userRow[1].data)] }
  /\ UNCHANGED << userRow, restReply, served >>
  /\ UNCHANGED << syncVars, catalog, pre, keys, aggVars, uiVars >>

\* setDataByKey writes existingData with the key replaced, and the handler answers
StoreRow(r) ==
  /\ r \in inflight
  /\ r.pc = "store"
  /\ inflight' = inflight \ {r}
  /\ userRow' = setData([r.existingData EXCEPT !.aggregated_views_config = Some(r.configs)],
                        now)
  /\ restReply' = << [seq |-> r.seq, kind |-> "views", req |-> r.req, statusCode |-> 200,
                      body |-> <<>>, before |-> userRow[1].updated] >>
  /\ UNCHANGED served
  /\ UNCHANGED << syncVars, catalog, pre, keys, aggVars, uiVars >>

\* ------------------------------------------------------------ sync endpoint
\* verifyPrimitiveMetadata(body) does not throw
VerifyOk(body) == body.data.def

\* completeData of the POST branch
CompleteData(body) ==
  [ data                    |-> body.data,
    aggregated_views_config |-> Some(OrEmpty(body.aggregatedViews)),
    pinnedColumns           |-> Some(OrEmpty(body.pinnedColumns)) ]

\* faulty variant of SyncStore: a body older than the row is not stored
SyncStoreIfNewer(row, body) ==
  IF body.updatedTime > row.updated THEN setData(CompleteData(body), body.updatedTime)
  ELSE <<row>>

\* the POST branch: userTable.setData(id, JSON.stringify(completeData), updatedTime)
SyncStore(row, body) == setData(CompleteData(body), body.updatedTime)

\* the object the GET branch returns
SyncGetBody(row) ==
  LET parsedData == parseUserData(row.data)
  IN [ data            |-> parsedData.data,
       updatedTime     |-> row.updated,
       aggregatedViews |-> OrEmpty(parsedData.aggregated_views_config),
       pinnedColumns   |-> OrEmpty(parsedData.pinnedColumns) ]

\* POST /me/sync
SyncPost(body) ==
  /\ served < MaxServed
  /\ userRow # <<>>
  /\ served' = served + 1
  /\ IF VerifyOk(body)
       THEN /\ userRow' = SyncStore(userRow[1], body)
            /\ restReply' = Response("syncPost", body, 200, <<>>)
       ELSE /\ restReply' = Response("syncPost", body, 400, <<>>)
            /\ UNCHANGED userRow
  /\ UNCHANGED inflight
  /\ UNCHANGED << syncVars, catalog, pre, keys, aggVars, uiVars >>

\* GET /me/sync
SyncGet ==
  /\ served < MaxServed
  /\ userRow # <<>>
  /\ served' = served + 1
  /\ restReply' = Response("syncGet", [method |-> "GET"], 200, << SyncGetBody(userRow[1]) >>)
  /\ UNCHANGED << userRow, inflight >>
  /\ UNCHANGED << syncVars, catalog, pre, keys, aggVars, uiVars >>

InitRest ==
  /\ catalog = DefaultCatalog
  /\ SyncIdle
  /\ AggIdle
  /\ UiIdle
  /\ pre = <<>>
  /\ keys = <<>>
  /\ now = MaxNow - TickMs
  /\ userRow \in { <<row>> : row \in RowInits }
  /\ inflight = {}
  /\ restReply = <<>>
  /\ served = 0

NextRest ==
  \/ Tick
  \/ \E req \in ViewRequests : ViewsRequest(req)
  \/ \E r \in inflight : LoadRow(r)
  \/ \E r \in inflight : StoreRow(r)
  \/ \E body \in SyncBodies : SyncPost(body)
  \/ SyncGet

SpecRest == InitRest /\ [][NextRest]_vars

\* ------------------------------------------------------------------ claims
\* the step gives a response
Replies == restReply' # restReply

\* the request that reached the aggregated-view endpoint in this step
BegunRequest ==
  IF Replies THEN restReply'[1].req ELSE (CHOOSE r \in inflight' \ inflight : TRUE).req

\* a request reaches the aggregated-view endpoint in this step
ViewsBegins ==
  /\ served' = served + 1
  /\ IF Replies THEN restReply'[1].kind = "views" ELSE inflight' # inflight

\* the body of a request violates the schema of its method
SchemaViolation(req) ==
  LET name == req.body.name
      list == req.body.sources
      BadName == name.def /\ (name.val = "" \/ Len(name.val) > 50)
      BadSources == list.def /\ (list.val = <<>> \/ Len(list.val) > 100)
  IN CASE req.method = "POST" -> ~name.def \/ ~list.def \/ BadName \/ BadSources
       [] req.method = "PUT" -> (~name.def /\ ~list.def) \/ BadName \/ BadSources
       [] OTHER -> FALSE

\* the name of a request is the name of a stored view other than the one it updates
NameCollision(req, configs) ==
  /\ req.method \in {"POST", "PUT"}
  /\ req.body.name.def
  /\ \E i \in 1..Len(configs) :
       /\ configs[i].name = req.body.name.val
       /\ req.method = "PUT" => (req.id.def /\ configs[i].id # req.id.val)

\* the status the claim gives a request that is to be rejected, 0 for none
StatedStatus(req, configs) ==
  IF ~req.auth THEN 401
  ELSE IF SchemaViolation(req) THEN 400
  ELSE IF req.method \in {"PUT", "DELETE"} /\ req.id.def /\ req.id.val \notin IdsOf(configs)
    THEN 404
  ELSE IF NameCollision(req, configs) THEN 409
  ELSE 0

\* a request that is to be rejected is answered at once with the stated status
\* and no write of it is under way; a rejection leaves the row as it was
Rejected ==
  /\ ViewsBegins =>
       LET stated == StatedStatus(BegunRequest, getAggregatedViewsConfig(userRow[1]))
       IN stated # 0 =>
            /\ Replies
            /\ restReply'[1].statusCode = stated
            /\ inflight' = inflight
            /\ userRow' = userRow
  /\ (Replies /\ restReply'[1].statusCode \in {400, 401, 404, 409}) => userRow' = userRow

\* C26: a rejected aggregated-view request leaves the stored record unchanged
\* and reports the stated outcome: 401 without authentication, 400 for a schema
\* violation (empty or too long name, empty or too long source list, update
\* with neither field), 409 for a name collision, 404 for an unknown id on
\* update or delete.
C26_RejectionsLeaveRecord == [][Rejected]_vars

\* a rename to the name of another stored view has been refused
C26_Witness ==
  /\ restReply # <<>>
  /\ restReply[1].kind = "views"
  /\ restReply[1].req.method = "PUT"
  /\ restReply[1].req.body.name = Some("World")
  /\ restReply[1].statusCode = 409
  /\ getAggregatedViewsConfig(userRow[1]) = <<View1, View2>>

\* the step is a successful POST of the sync endpoint
SyncPosted == Replies /\ restReply'[1].kind = "syncPost" /\ restReply'[1].statusCode = 200

\* a GET after the POST returns the four values of the body as they were sent
PostedExactly ==
  SyncPosted =>
    LET body == restReply'[1].req
        got == SyncGetBody(userRow'[1])
    IN /\ got.data = body.data
       /\ got.updatedTime = body.updatedTime
       /\ Some(got.aggregatedViews) = body.aggregatedViews
       /\ Some(got.pinnedColumns) = body.pinnedColumns

\* C27 as stated: a POST with a well-formed body stores data, aggregatedViews,
\* pinnedColumns and updatedTime exactly as sent, whatever the row held, and a
\* following GET returns exactly those four values.
C27_PostThenGetExact == [][PostedExactly]_vars

\* a GET after the POST returns the values of the body, an absent list as []
PostedWithDefaults ==
  SyncPosted =>
    LET body == restReply'[1].req
        got == SyncGetBody(userRow'[1])
    IN /\ got.data = body.data
       /\ got.updatedTime = body.updatedTime
       /\ got.aggregatedViews = OrEmpty(body.aggregatedViews)
       /\ got.pinnedColumns = OrEmpty(body.pinnedColumns)

\* C27: a POST with a well-formed body stores data and updatedTime as sent and
\* aggregatedViews and pinnedColumns as sent or, when the body leaves them out,
\* as the empty list, whatever updatedTime the row held before; a following
\* GET returns those four values.
C27_PostThenGet == [][PostedWithDefaults]_vars

\* a body older than the row has been stored
C27_Witness ==
  /\ restReply # <<>>
  /\ restReply[1].kind = "syncPost"
  /\ restReply[1].statusCode = 200
  /\ restReply[1].before > restReply[1].req.updatedTime
  /\ userRow[1].updated = restReply[1].req.updatedTime
  /\ SyncGetBody(userRow[1]).aggregatedViews = <<View2>>



\* ============================================================================
\* Further claims about the sync session (Spec, SpecFair): the baseline a pull
\* leaves, pulls and pushes, and the record recovered at start-up.
\* ============================================================================

\* the completion of the pull sets the baseline to the serialization of the
\* record the store holds afterwards
BaselineIsStore ==
  (pull = "inflight" /\ pull' = "done" /\ lastSyncedRef' # lastSyncedRef) =>
    lastSyncedRef' = << metadataString(primitiveMetadata') >>

\* C28: after a pull has completed, the last-synced baseline is the
\* serialization (data, aggregatedViews, pinnedColumns) of the record the store
\* holds after the merge attempt: of the preprocessed server record if it was
\* accepted, of the unchanged local record if it was discarded.
C28_BaselineAfterPull == [][BaselineIsStore]_vars

\* a pull is started by the mount only, and is not started again
PullStartsOnMount ==
  /\ (pull' = "inflight" /\ pull # "inflight") => (pull = "none" /\ ~mounted /\ mounted')
  /\ pull \in {"skipped", "done"} => pull' = pull

\* while the store holds a pulled record no push request is sent
NoPushWhileSynced == primitiveMetadata.action = "sync" => pushSent' = pushSent

\* a pull is started once, and an accepted pull sends nothing
PullNeverPushes == PullStartsOnMount /\ NoPushWhileSynced

\* C29: a pull is started at most once per session, on mount, and after a pull
\* whose record was accepted no push request is sent until a later write tagged
\* "manual" is applied.
C29_PullOnceNoPush == [][PullNeverPushes]_vars

\* the pulled record was accepted, it differs from the baseline, the timer has
\* fired, and nothing was sent
C29_Witness ==
  /\ pull = "done"
  /\ primitiveMetadata.action = "sync"
  /\ lastSyncedRef # << metadataString(primitiveMetadata) >>
  /\ timer = NoTimer
  /\ now >= lastWrite + DebounceMs
  /\ jwt
  /\ pushSent = 0

\* the session starts from a stored record that is newer than the server copy,
\* with a credential
RecoveredNewer ==
  /\ ~mounted
  /\ jwt
  /\ storage # <<>>
  /\ server # <<>>
  /\ server[1].updatedTime < storage[1].updatedTime

\* a push request carries the record that was recovered from storage
RecoveredPushed ==
  \E p \in pushes : storage # <<>> /\ p.body.updatedTime = storage[1].updatedTime

\* the store has applied a write since start-up
WrittenSinceStart == lastWrite # 0

\* C30: when the client starts with a record recovered from durable storage, a
\* credential and an older server copy, a push carrying the recovered record is
\* eventually issued, also when no further write is made.
C30_RecoveredEventuallyPushed == RecoveredNewer => <>(RecoveredPushed \/ WrittenSinceStart)

\* ============================================================================
\* Further claims about the aggregation endpoint (SpecAgg)
\* ============================================================================

\* the age of the entry the request read for x
EntryAge(x) == now - caches[x][1].updated

\* the entry the request read for x is older than the refresh interval of x and
\* younger than TTL
StaleEntry(x) ==
  caches[x] # <<>> /\ EntryAge(x) > interval[x] /\ EntryAge(x) < TTL

\* C31: in a non-forced request, a valid source whose cache entry is older than
\* its refresh interval and younger than TTL gets the cached items with status
\* "cache" and the entry's own time and its getter is not invoked; a getter is
\* invoked only for a source without entry or with an entry at least as old as
\* both the refresh interval and TTL.
C31_StaleCacheServed ==
  (query # <<>> /\ ~query[1].latest /\ cacheReads > 0) =>
     \A i \in 1..Len(RequestedValid) :
        LET x == RequestedValid[i]
        IN /\ StaleEntry(x) =>
                /\ results[i] = << [ id          |-> x,
                                     items       |-> caches[x][1].items,
                                     updatedTime |-> caches[x][1].updated,
                                     status      |-> "cache" ] >>
                /\ ~Invoked(x)
           /\ Invoked(x) =>
                \/ caches[x] = <<>>
                \/ (EntryAge(x) >= interval[x] /\ EntryAge(x) >= TTL)

\* a non-forced request answered one source from an entry between interval and
\* TTL and fetched another whose entry was as old as TTL
C31_Witness ==
  /\ query # <<>>
  /\ ~query[1].latest
  /\ Answered(200)
  /\ \E i, j \in 1..Len(RequestedValid) :
        /\ StaleEntry(RequestedValid[i])
        /\ results[i][1].status = "cache"
        /\ results[i][1].updatedTime = now - StaleAge
        /\ caches[RequestedValid[j]] # <<>>
        /\ EntryAge(RequestedValid[j]) = TTL
        /\ Invoked(RequestedValid[j])

\* the getter of position i was called and has resolved
FetchSucceeded(i) ==
  /\ results[i] # <<>>
  /\ \E r \in invoked : r.index = i
  /\ upstream[RequestedValid[i]] # <<>>

\* C32: a cache write is requested for a position if and only if its getter
\* was invoked and resolved; the value written is the fetched list cut to the
\* first 10 items, also when it is empty, and it replaces the entry of the
\* source; positions served from the cache or whose getter threw write nothing.
C32_CacheWriteIffFetched ==
  \A i \in 1..Len(results) :
     LET x == RequestedValid[i]
     IN /\ (\E w \in cacheSets : w.index = i) <=> FetchSucceeded(i)
        /\ \A w \in cacheSets :
              w.index = i =>
                 /\ w.id = x
                 /\ w.items = Slice(upstream[x][1], MAX_ITEMS_PER_SOURCE)
                 /\ cacheTable[x] = << [id |-> x, items |-> w.items, updated |-> now] >>

\* ============================================================================
\* Further claims about the client store and its writers (Spec)
\* ============================================================================

\* an applied write of the source list of column c keeps the pinned columns, the
\* views (an absent list counting as the empty one) and the other source lists
KeepsOtherFields(c) ==
  /\ OrEmpty(primitiveMetadata'.pinnedColumns) = OrEmpty(primitiveMetadata.pinnedColumns)
  /\ OrEmpty(primitiveMetadata'.aggregatedViews) = OrEmpty(primitiveMetadata.aggregatedViews)
  /\ \A k \in DOMAIN primitiveMetadata.data \ {c} :
        /\ k \in DOMAIN primitiveMetadata'.data
        /\ primitiveMetadata'.data[k] = primitiveMetadata.data[k]

\* every step of a source setter that changes the store keeps the other fields
SourceWriteKeepsRest ==
  \A c \in DOMAIN initialMetadata, l \in SourceLists, ok \in BOOLEAN :
     (EditSources(c, l, ok) /\ primitiveMetadata' # primitiveMetadata) => KeepsOtherFields(c)

\* C33: a write through the setter of currentSourcesAtom or focusSourcesAtom
\* changes only the source list of its column, updatedTime and action: the
\* pinned columns, the aggregated views and the source lists of all other
\* columns are the same after the write as before.
C33_SourceWriteFrame == [][SourceWriteKeepsRest]_vars

\* an update that failed with NotFound left the record, its persisted copy and
\* the debounce timer alone
NotFoundKeepsRecord ==
  (MutationStep("update") /\ lastMutation'[1].result = "NotFound") =>
    UNCHANGED << primitiveMetadata, storage, timer >>

\* C34: an update of the hook that fails with NotFound leaves the whole record
\* unchanged, updatedTime and action included, and schedules no push.
C34_NotFoundNoWrite == [][NotFoundKeepsRecord]_vars

\* ============================================================================
\* The view mutation hook with direct server calls (the version of
\* useAggregatedViewsMutation that has syncToServer), run inside the sync
\* session: an update or a delete writes the store and then awaits a request
\* to /api/me/aggregated-views/:id.
\* ============================================================================

\* canSyncToServer(): whether localStorage or sessionStorage holds a "token" item
canSyncToServer(token) == token

\* syncToServer(action, viewId): the requests it sends, none when
\* canSyncToServer() is false; applied tells whether the store took the change
\* of the mutation the request belongs to
syncToServer(method, viewId, token, applied) ==
  IF canSyncToServer(token)
    THEN { [ seq |-> Mutations + 1, method |-> method, id |-> viewId,
             updatedTime |-> now, applied |-> applied ] }
    ELSE {}

\* updateView({ id, data }): the store is written, the call fails when no view
\* had the id, and otherwise syncToServer(UPDATE, id, data) follows
UpdateViewSync(id, name, list, token) ==
  /\ CanMutate
  /\ LET candidate ==
           ViewsUpdate(primitiveMetadata, UpdatedViews(aggregatedViews, id, name, list, now))
         found == id \in IdsOf(aggregatedViews)
     IN /\ SetPrimitiveMetadata(candidate, TRUE)
        /\ lastMutation' = Mutation("update", id, name, list,
                                    IF found THEN "ok" ELSE "NotFound")
        /\ restCalls' =
             IF found
               THEN restCalls \cup
                      syncToServer("PUT", id, token, Accepts(candidate, primitiveMetadata))
               ELSE restCalls
  /\ UNCHANGED << now, jwt, lastSyncedRef, mounted, pull, pushes, server, toasts, pushSent >>
  /\ UNCHANGED << catalog, pre, keys, aggVars, restarted, currentColumnID, effective, activeViewId,
                  restVars >>

\* handleDeleteView(viewId) of a view on display: deleteView writes the store
\* and syncToServer(DELETE, id) follows
DeleteViewSync(viewId, token) ==
  /\ CanMutate
  /\ viewId \in IdsOf(aggregatedViews)
  /\ LET candidate == ViewsUpdate(primitiveMetadata, DeletedViews(aggregatedViews, viewId))
     IN /\ SetPrimitiveMetadata(candidate, TRUE)
        /\ restCalls' = restCalls \cup
             syncToServer("DELETE", viewId, token, Accepts(candidate, primitiveMetadata))
  /\ activeViewId' = AfterDelete(activeViewId, viewId)
  /\ lastMutation' = Mutation("delete", viewId, Undefined, Undefined, "ok")
  /\ UNCHANGED << now, jwt, lastSyncedRef, mounted, pull, pushes, server, toasts, pushSent >>
  /\ UNCHANGED << catalog, pre, keys, aggVars, restarted, currentColumnID, effective, restVars >>

InitDual ==
  /\ OtherIdle
  /\ now = TickMs
  /\ jwt \in BOOLEAN
  /\ storage \in StoredViewInits
  /\ primitiveMetadata = initialState(storage)
  /\ server = <<>>
  /\ lastSyncedRef = <<>>
  /\ timer = NoTimer
  /\ mounted = FALSE
  /\ pull = "none"
  /\ pushes = {}
  /\ toasts = 0
  /\ pushSent = 0
  /\ lastWrite = 0
  /\ pushedSinceWrite = 0

NextDual ==
  \/ Mount
  \/ Tick
  \/ PullOk(TRUE)
  \/ \E st \in FailStatuses : PullFail(st)
  \/ \E name \in ViewNames, l \in ViewSources : CreateView(name, l, TRUE)
  \/ \E id \in ViewIds, name \in PartialNames, token \in BOOLEAN :
       UpdateViewSync(id, name, Undefined, token)
  \/ \E id \in ViewIds, token \in BOOLEAN : DeleteViewSync(id, token)
  \/ DebounceFire
  \/ \E p \in pushes : PushOk(p)
  \/ \E p \in pushes, st \in FailStatuses : PushFail(p, st)

SpecDual == InitDual /\ [][NextDual]_vars

\* C35: the change of one mutation of the hook reaches the server by one
\* channel only: no push request carries the record written by a mutation for
\* which a request to the aggregated-view endpoint was sent.
C35_SingleChannel ==
  \A c \in restCalls :
     c.applied => ~\E p \in pushes : p.body.updatedTime = c.updatedTime

\* ============================================================================
\* Further claims about the endpoints of the user's record (SpecRest)
\* ============================================================================

\* the views the row holds
StoredViews(row) == IF row = <<>> THEN <<>> ELSE getAggregatedViewsConfig(row[1])

\* no two views of the list have the same name, and no two the same id
PairwiseDistinct(configs) ==
  \A i, j \in 1..Len(configs) :
     i # j => (configs[i].name # configs[j].name /\ configs[i].id # configs[j].id)

\* the request gives the view it updates the name the view has
OwnName(req, configs) ==
  /\ req.method = "PUT"
  /\ req.auth
  /\ req.id.def
  /\ req.body.name.def
  /\ \E i \in 1..Len(configs) :
        configs[i].id = req.id.val /\ configs[i].name = req.body.name.val

\* a write of the aggregated-view endpoint keeps names and ids distinct, and
\* a valid rename of a view to its own name is not refused
StaysDistinct ==
  /\ (Replies /\ restReply'[1].kind = "views" /\ PairwiseDistinct(StoredViews(userRow)))
        => PairwiseDistinct(StoredViews(userRow'))
  /\ (ViewsBegins /\ OwnName(BegunRequest, StoredViews(userRow))
                  /\ ~SchemaViolation(BegunRequest))
        => (~Replies /\ inflight' # inflight)

\* C36: a completed create, update or delete of the aggregated-view endpoint
\* on a stored collection with pairwise distinct names and ids leaves a
\* collection with pairwise distinct names and ids, and an update that gives a
\* view its own current name is accepted.
C36_NamesStayDistinct == [][StaysDistinct]_vars

\* the first request served renamed "v1" to the name it had, next to a view
\* of another name
C36_Witness ==
  /\ restReply # <<>>
  /\ restReply[1].kind = "views"
  /\ restReply[1].seq = 1
  /\ restReply[1].statusCode = 200
  /\ restReply[1].req.method = "PUT"
  /\ restReply[1].req.body.name = Some(View1.name)
  /\ Len(StoredViews(userRow)) = 2
  /\ StoredViews(userRow)[1].name = View1.name

\* the aggregated-view endpoint completes a write in this step
ViewsWritten ==
  Replies /\ restReply'[1].kind = "views" /\ restReply'[1].statusCode = 200

\* a completed create keeps every stored view, and a completed write of the
\* aggregated-view endpoint keeps the source lists and the pinned columns
NoLostUpdate ==
  /\ (ViewsWritten /\ restReply'[1].req.method = "POST") =>
        IdsOf(StoredViews(userRow)) \subseteq IdsOf(StoredViews(userRow'))
  /\ ViewsWritten =>
        /\ parseUserData(userRow'[1].data).data = parseUserData(userRow[1].data).data
        /\ parseUserData(userRow'[1].data).pinnedColumns
             = parseUserData(userRow[1].data).pinnedColumns

\* C37: overlapping requests that report success lose no update: a create of
\* the aggregated-view endpoint keeps the views that another request has
\* stored meanwhile, and a write of the aggregated-view endpoint keeps the
\* source lists and pinned columns that a POST of the sync endpoint has stored
\* meanwhile.
C37_NoLostUpdate == [][NoLostUpdate]_vars

\* ============================================================================
\* The sync session over a reload of the page: the module state of the client
\* (store, baseline, timer, pull) is created anew from localStorage, the
\* server keeps its row.
\* ============================================================================

\* the server holds what a push of record stores for it
ServerStored(record) == server = PostSync(UploadBody(record))

\* the page is reloaded while no push is in flight: primitiveMetadataAtom is
\* created again from localStorage and useSync is unmounted
Reload ==
  /\ mounted
  /\ restarted = <<>>
  /\ pushes = {}
  /\ restarted' = << [ record   |-> primitiveMetadata,
                       synced   |-> /\ primitiveMetadata.action = "manual"
                                    /\ lastSyncedRef = <<metadataString(primitiveMetadata)>>
                                    /\ ServerStored(primitiveMetadata),
                       pushSent |-> pushSent ] >>
  /\ primitiveMetadata' = initialState(storage)
  /\ lastSyncedRef' = <<>>
  /\ timer' = NoTimer
  /\ mounted' = FALSE
  /\ pull' = "none"
  /\ UNCHANGED << now, jwt, storage, pushes, server, toasts, pushSent, lastWrite,
                  pushedSinceWrite >>
  /\ UNCHANGED << catalog, pre, keys, aggVars, restVars, currentColumnID, effective,
                  activeViewId, lastMutation, restCalls >>

\* a logged-in user whose row on the server is still empty
InitSessions ==
  /\ Init
  /\ jwt
  /\ server = <<>>

NextSessions == Next \/ Reload

SpecSessions == InitSessions /\ [][NextSessions]_vars

\* the two records have the same time stamp, source lists, views and pinned
\* columns (an absent list counting as the empty one)
SameContent(r, q) ==
  /\ r.updatedTime = q.updatedTime
  /\ r.data = q.data
  /\ OrEmpty(r.aggregatedViews) = OrEmpty(q.aggregatedViews)
  /\ OrEmpty(r.pinnedColumns) = OrEmpty(q.pinnedColumns)

\* the page was reloaded when the push of its record had succeeded, the pull
\* of the new session has returned the server's record (the baseline is set)
\* and nothing has been written since
PulledAfterPush ==
  /\ restarted # <<>>
  /\ restarted[1].synced
  /\ pull = "done"
  /\ lastSyncedRef # <<>>
  /\ primitiveMetadata.action # "manual"

\* C38 as stated: when the push of record R has succeeded and nothing was
\* written on either side afterwards, the pull of a later session leaves the
\* store with the content of R, and no push request is sent as a consequence.
C38_PushThenPullNoOp ==
  PulledAfterPush =>
    /\ SameContent(primitiveMetadata, restarted[1].record)
    /\ pushSent = restarted[1].pushSent
    /\ pushes = {}

\* C38: when the push of record R has succeeded and nothing was written on
\* either side afterwards, the pull of a later session leaves the store with
\* the content of the preprocessed R (R itself when preprocessing does not
\* change it), and no push request is sent as a consequence.
C38_PushThenPullPreprocessed ==
  PulledAfterPush =>
    /\ SameContent(primitiveMetadata, preprocessMetadata(restarted[1].record))
    /\ pushSent = restarted[1].pushSent
    /\ pushes = {}

\* a session pulled after the push of a record with a shortened column: the
\* store has the column with its default appended
C38_Witness ==
  /\ PulledAfterPush
  /\ restarted[1].record.data["tech"] = <<"a">>
  /\ primitiveMetadata.data["tech"] = <<"a", "b">>
  /\ now >= timer

\* ============================================================================
\* Start-up of the store (recoverFromStorage and createPrimitiveMetadataAtom)
\* over what the "metadata" item of localStorage can hold, followed by the
\* first write. The variable pre holds the item, the initial state and the
\* outcome of the write.
\* ============================================================================

\* what JSON.parse gives for an item that parses: every property can be missing
RawValues ==
  [ data            : { Undefined, Some([focus |-> <<"old">>, tech |-> <<"b">>]),
                        Some([focus |-> <<"zz", "b">>]) },
    updatedTime     : { Undefined, Some(0), Some(4000) },
    pinnedColumns   : { Undefined, Some(<<"tech">>) },
    aggregatedViews : { Undefined, Some(<<View1>>) },
    action          : { "manual", "sync" } ]

\* the item: missing (null or ""), a text that is not JSON, or a text that parses
RawItems ==
  [ kind : {"missing", "unparsable"},
    value : {[ data |-> Undefined, updatedTime |-> Undefined, pinnedColumns |-> Undefined,
               aggregatedViews |-> Undefined, action |-> "manual" ]} ]
  \cup [ kind : {"json"}, value : RawValues ]

\* the candidates of the first write
FirstCandidates ==
  { [defaultState EXCEPT !.updatedTime = t, !.action = "manual",
                         !.data = [focus |-> <<"a">>, tech |-> <<"b", "a">>]] :
      t \in {0, 1, 4000, 5000} }

\* primitiveMetadataSchema.parse(target) does not throw: data and updatedTime
\* are required, the two lists are optional
verifyPrimitiveMetadata(target) == target.data.def /\ target.updatedTime.def

\* the head of recoverFromStorage: getItem, JSON.parse and the verification;
\* <<>> when the item is missing or one of them throws, else <<stored>>
StoredItem(raw) ==
  IF raw.kind = "missing" THEN <<>>
  ELSE IF raw.kind = "unparsable" THEN <<>>
  ELSE IF ~verifyPrimitiveMetadata(raw.value) THEN <<>>
  ELSE << [ updatedTime     |-> raw.value.updatedTime.val,
            data            |-> raw.value.data.val,
            pinnedColumns   |-> raw.value.pinnedColumns,
            aggregatedViews |-> raw.value.aggregatedViews,
            action          |-> raw.value.action ] >>

\* the module is loaded: baseAtom gets its initial state
Start ==
  /\ pre # <<>>
  /\ pre[1].state = <<>>
  /\ pre' = << [pre[1] EXCEPT !.state = << initialState(StoredItem(pre[1].item)) >>] >>
  /\ UNCHANGED << syncVars, uiVars, restVars, catalog, keys, aggVars >>

\* the first call of the setter of the store
FirstWrite(candidate) ==
  /\ pre # <<>>
  /\ pre[1].state # <<>>
  /\ pre[1].written = <<>>
  /\ pre' = << [pre[1] EXCEPT
                  !.written = << [ candidate |-> candidate,
                                   result |-> WriteResult(pre[1].state[1], candidate) ] >>] >>
  /\ UNCHANGED << syncVars, uiVars, restVars, catalog, keys, aggVars >>

InitStart ==
  /\ catalog = DefaultCatalog
  /\ SyncIdle
  /\ UiIdle
  /\ RestIdle
  /\ AggIdle
  /\ now = TickMs
  /\ keys = <<>>
  /\ pre \in { << [item |-> raw, state |-> <<>>, written |-> <<>>] >> : raw \in RawItems }

NextStart ==
  \/ Start
  \/ \E candidate \in FirstCandidates : FirstWrite(candidate)

SpecStart == InitStart /\ [][NextStart]_vars

\* the item holds a record: it parses and has its required properties
HoldsRecord(raw) ==
  raw.kind = "json" /\ raw.value.data.def /\ raw.value.updatedTime.def

\* the record has the shape preprocessing gives: exactly the fixed columns,
\* only ids of the catalog, both lists present, and preprocessing it again
\* changes nothing
Preprocessed(m) ==
  /\ DOMAIN m.data = DOMAIN initialMetadata
  /\ \A c \in DOMAIN m.data : Range(m.data[c]) \subseteq sources
  /\ m.pinnedColumns.def
  /\ m.aggregatedViews.def
  /\ preprocessMetadata(m) = m

\* C39: a record recovered at start-up becomes the current record tagged
\* "init", with its updatedTime and lists, after preprocessing; when the item
\* is missing, does not parse or fails the verification, the store starts from
\* the default record (updatedTime 0, the default sources of the catalog, empty
\* pinnedColumns and aggregatedViews), and then every first write with a
\* positive updatedTime is accepted.
C39_RecoveryStart ==
  (pre # <<>> /\ pre[1].state # <<>>) =>
     LET raw == pre[1].item
         state == pre[1].state[1]
     IN IF HoldsRecord(raw)
          THEN /\ state.action = "init"
               /\ state.updatedTime = raw.value.updatedTime.val
               /\ state.pinnedColumns = Some(OrEmpty(raw.value.pinnedColumns))
               /\ state.aggregatedViews = Some(OrEmpty(raw.value.aggregatedViews))
               /\ Preprocessed(state)
          ELSE /\ state = [ updatedTime |-> 0, data |-> initialMetadata,
                            pinnedColumns |-> Some(<<>>), aggregatedViews |-> Some(<<>>),
                            action |-> "init" ]
               /\ \A w \in Range(pre[1].written) :
                     w.candidate.updatedTime > 0 => w.result = w.candidate

\* a start from an item that fails the verification, followed by a first write
\* that was accepted, and a start from a stored record with an unknown id
C39_Witness ==
  /\ pre # <<>>
  /\ pre[1].state # <<>>
  /\ \/ /\ pre[1].item.kind = "json"
        /\ ~HoldsRecord(pre[1].item)
        /\ pre[1].written # <<>>
        /\ pre[1].written[1].candidate.updatedTime = 1
        /\ pre[1].written[1].result.action = "manual"
     \/ /\ HoldsRecord(pre[1].item)
        /\ pre[1].item.value.action = "manual"
        /\ pre[1].item.value.data = Some([focus |-> <<"zz", "b">>])
        /\ pre[1].state[1].data = [focus |-> <<"b">>, tech |-> <<"a", "b">>]

====
